---- MODULE Spec2Model ----
(***************************************************************************)
(* State-machine model of postgres-wire-proxy: the negotiation done by     *)
(* handle_connection, the two pumps spawned by run_proxy, and the frame    *)
(* loop of parse_message with the timing slots it updates.                 *)
(* run_proxy calls parse_message with the direction, the client address    *)
(* and the timings; the frame loop is modelled with its panics, the frames *)
(* it dispatches and the timing slots the decoders mark and finish.        *)
(*                                                                         *)
(* Bytes are naturals 0..255.  The peers' byte streams are fixed at Init   *)
(* and handed to the proxy in read chunks of nondeterministic size.        *)
(*                                                                         *)
(* Specifications:                                                         *)
(*   Spec           one connection, peers that close after their stream    *)
(*   SpecIdlePeers  one connection, peers that may stay connected and idle *)
(*   SpecAccept     main's accept loop and the tasks of every connection   *)
(*   SpecCalls      ConnectionTiming called by two tasks, per memory access*)
(*   SpecDecode     frames dispatched to the decoders, with the TableState *)
(*   SpecFormatter  one TableFormatter under any sequence of calls         *)
(***************************************************************************)
EXTENDS Naturals, Integers, Sequences, FiniteSets, TLC

(***************************************************************************)
(* Bounds of the model                                                     *)
(***************************************************************************)
\* typed frames the client sends after its opening packet(s)
MaxClientFrames == 2
\* connections the listener accepts
MaxConnections == 2
\* mark_* calls made on one ConnectionTiming
MaxMarks == 2
\* columns of a result set, and log lines one TableFormatter is followed for
MaxColumns == 2
MaxLines == 7
\* pad_or_truncate: characters of s, and width
MaxChars == 6
MaxWidth == 5
\* format codes in one list of a Bind message
MaxCodes == 2
\* pg-client-inspect: messages the server sends in one run
MaxReplies == 4

(***************************************************************************)
(* Program constants                                                       *)
(***************************************************************************)
\* BytesMut::with_capacity(8): a read_buf into startup_buf returns at most 8 bytes
StartupCap == 8
\* "SSL request code is 80877103"
SslRequestCode == 80877103
\* "Use fixed column width of 15 characters"
FIXED_COL_WIDTH == 15

(***************************************************************************)
(* Byte helpers                                                            *)
(***************************************************************************)
Min(a, b) == IF a < b THEN a ELSE b

\* u32::from_be_bytes([b[i], b[i+1], b[i+2], b[i+3]]), i is 1-based
U32(b, i) == b[i] * 16777216 + b[i + 1] * 65536 + b[i + 2] * 256 + b[i + 3]

IsPrefix(s, t) == Len(s) <= Len(t) /\ SubSeq(t, 1, Len(s)) = s

\* bytes s[from+1 .. to] (0-based half-open range from..to, as a Rust slice)
Slice(s, from, to) == SubSeq(s, from + 1, to)

(***************************************************************************)
(* The peers' inputs                                                       *)
(***************************************************************************)
\* opening packets a client may send
SSLRequest == <<0, 0, 0, 8, 4, 210, 22, 47>>
CancelRequest == <<0, 0, 0, 8, 4, 210, 22, 46>>
\* protocol 3.0 startup packets whose length prefix declares 8 and 9 bytes
Startup8 == <<0, 0, 0, 8, 0, 3, 0, 0>>
Startup9 == <<0, 0, 0, 9, 0, 3, 0, 0, 0>>
\* a packet carrying the SSL code under a length prefix of 9
SslCodeLen9 == <<0, 0, 0, 9, 4, 210, 22, 47, 0>>

\* typed client frames: Sync, Query "" and a Terminate whose length field is 3
SyncFrame == <<83, 0, 0, 0, 4>>
QueryFrame == <<81, 0, 0, 0, 5, 0>>
ShortLenFrame == <<88, 0, 0, 0, 3>>
ClientFrames == {QueryFrame, ShortLenFrame}

\* typed server frames: ParseComplete and CommandComplete ""
ParseCompleteFrame == <<49, 0, 0, 0, 4>>
CommandCompleteFrame == <<67, 0, 0, 0, 5, 0>>

RECURSIVE Streams(_, _)
Streams(frames, n) ==
    IF n = 0 THEN {<<>>}
    ELSE LET S == Streams(frames, n - 1)
         IN  S \cup {s \o f : s \in S, f \in frames}

ClientStreams ==
    {<<>>, <<0, 0, 0>>, SSLRequest, SSLRequest \o <<0, 0, 0>>}
      \cup {Startup8 \o t : t \in Streams(ClientFrames, MaxClientFrames)}
      \cup {o \o t : o \in {Startup9, SSLRequest \o Startup8, SSLRequest \o Startup9,
                            CancelRequest, SslCodeLen9},
                     t \in {SyncFrame}}

ServerStreams == {<<>>, CommandCompleteFrame}

(***************************************************************************)
(* ConnectionTiming                                                        *)
(***************************************************************************)
\* Option<Instant>: 0 is None, a positive number is Some(instant)
None == 0

TimingStateDefault == [simple_query |-> None, execute |-> None, parse |-> None, bind |-> None]

\* a mark that keeps the instant of an earlier, still unfinished request
mark_simple_query_keeps_first(t, now) ==
    IF t.simple_query # None THEN t ELSE [t EXCEPT !.simple_query = now]

mark_simple_query(t, now) == [t EXCEPT !.simple_query = now]
mark_execute(t, now) == [t EXCEPT !.execute = now]
mark_parse(t, now) == [t EXCEPT !.parse = now]
\* a mark_bind that also empties the Parse slot
mark_bind_clears_parse(t, now) == [t EXCEPT !.bind = now, !.parse = None]

mark_bind(t, now) == [t EXCEPT !.bind = now]

\* Option::take: the slot's value is returned and the slot is left None
finish_simple_query(t) == [took |-> t.simple_query, state |-> [t EXCEPT !.simple_query = None]]
finish_execute(t) == [took |-> t.execute, state |-> [t EXCEPT !.execute = None]]
finish_parse(t) == [took |-> t.parse, state |-> [t EXCEPT !.parse = None]]
finish_bind(t) == [took |-> t.bind, state |-> [t EXCEPT !.bind = None]]

\* the four slots, and the call that marks or finishes a given slot
Kinds == {"simple_query", "execute", "parse", "bind"}

mark(k, t, now) ==
    CASE k = "simple_query" -> mark_simple_query(t, now)
      [] k = "execute" -> mark_execute(t, now)
      [] k = "parse" -> mark_parse(t, now)
      [] k = "bind" -> mark_bind(t, now)

finish(k, t) ==
    CASE k = "simple_query" -> finish_simple_query(t)
      [] k = "execute" -> finish_execute(t)
      [] k = "parse" -> finish_parse(t)
      [] k = "bind" -> finish_bind(t)

\* a mutex that lets a second caller in while the guard is held
lock_unguarded(m) == TRUE

\* Mutex::lock returns once no other guard is alive
lock(m) == m = "free"

(***************************************************************************)
(* TableFormatter and TableState                                           *)
(***************************************************************************)
\* A formatter is [fields, column_widths, header_printed] (fields: the number of
\* columns).  A log line is [kind, cells].  The printing methods take and
\* return o = [f, lines]: the formatter and the lines logged so far.
Line(kind, cells) == [kind |-> kind, cells |-> cells]

TableFormatterNew(fields) ==
    [fields |-> fields,
     column_widths |-> [i \in 1..fields |-> FIXED_COL_WIDTH],
     header_printed |-> FALSE]

\* a print_header without its `if self.header_printed { return; }`
print_header_unguarded(o) ==
    [f |-> [o.f EXCEPT !.header_printed = TRUE],
     lines |-> o.lines \o <<Line("top", o.f.fields), Line("header", o.f.fields),
                            Line("mid", o.f.fields)>>]

print_header(o) ==
    IF o.f.header_printed THEN o
    ELSE [f |-> [o.f EXCEPT !.header_printed = TRUE],
          lines |-> o.lines \o <<Line("top", o.f.fields), Line("header", o.f.fields),
                                 Line("mid", o.f.fields)>>]

\* Strings are sequences of characters (s.chars()); " ".repeat(n)
Chars == {"a", ".", " "}
Repeat(c, n) == [i \in 1..n |-> c]
Take(chars, n) == SubSeq(chars, 1, Min(n, Len(chars)))

\* a pad_or_truncate that appends the ellipsis to width characters
pad_or_truncate_appending(s, width) ==
    LET chars == s
        char_count == Len(chars)
    IN  IF char_count <= width
        THEN s \o Repeat(" ", width - char_count)
        ELSE Take(chars, width) \o <<".", ".", ".">>

pad_or_truncate(s, width) ==
    LET chars == s
        char_count == Len(chars)
    IN  IF char_count <= width
        THEN s \o Repeat(" ", width - char_count)
        ELSE IF width >= 3
             THEN Take(chars, width - 3) \o <<".", ".", ".">>
             ELSE Take(chars, width)

\* `widths.get(i).copied().unwrap_or(10)`: the width of a value beyond the columns
DefaultCellWidth == 10

\* the width format_row gives to the i-th cell of a row (i is 1-based)
format_row_width(widths, i) == IF i <= Len(widths) THEN widths[i] ELSE DefaultCellWidth

\* a print_row that refits the column widths to the row it prints
print_row_refitting(o, values) ==
    LET h == IF ~o.f.header_printed THEN print_header(o) ELSE o
    IN  [f |-> [h.f EXCEPT !.column_widths = [i \in 1..values |-> FIXED_COL_WIDTH]],
         lines |-> Append(h.lines, Line("row", values))]

\* format_row makes one cell per value
print_row(o, values) ==
    LET h == IF ~o.f.header_printed THEN print_header(o) ELSE o
    IN  [h EXCEPT !.lines = Append(@, Line("row", values))]

\* a print_footer that does not look at header_printed
print_footer_unguarded(o) == [o EXCEPT !.lines = Append(@, Line("bottom", o.f.fields))]

print_footer(o) ==
    IF ~o.f.header_printed THEN o
    ELSE [o EXCEPT !.lines = Append(@, Line("bottom", o.f.fields))]

\* TableState: current_formatter is <<>> (None) or <<f>> (Some(f))
TableStateNew(table_mode) == [table_mode |-> table_mode, current_formatter |-> <<>>]

\* the methods of TableState take and return t = [table, lines]
\* a set_row_description that keeps the formatter of a result set still open
set_row_description_keeping(t, fields) ==
    IF t.table.table_mode /\ t.table.current_formatter = <<>>
    THEN [t EXCEPT !.table.current_formatter = <<TableFormatterNew(fields)>>]
    ELSE t

\* a set_row_description that does not look at table_mode
set_row_description_unguarded(t, fields) ==
    [t EXCEPT !.table.current_formatter = <<TableFormatterNew(fields)>>]

set_row_description(t, fields) ==
    IF t.table.table_mode
    THEN [t EXCEPT !.table.current_formatter = <<TableFormatterNew(fields)>>]
    ELSE t

print_data_row(t, values) ==
    IF ~t.table.table_mode THEN t
    ELSE IF t.table.current_formatter = <<>> THEN t
    ELSE LET o == print_row([f |-> t.table.current_formatter[1], lines |-> t.lines], values)
         IN  [table |-> [t.table EXCEPT !.current_formatter = <<o.f>>], lines |-> o.lines]

finish_result_set(t) ==
    IF ~t.table.table_mode THEN t
    ELSE LET lines == IF t.table.current_formatter = <<>> THEN t.lines
                      ELSE print_footer([f |-> t.table.current_formatter[1],
                                         lines |-> t.lines]).lines
         IN  [table |-> [t.table EXCEPT !.current_formatter = <<>>], lines |-> lines]

(***************************************************************************)
(* parse_message                                                           *)
(***************************************************************************)
Dirs == {"ClientToServer", "ServerToClient"}

\* the timing update of parse_client_message; st = [timings, clock]
parse_client_message(msg_type, st) ==
    LET now == st.clock + 1
    IN  CASE msg_type = 81 -> [timings |-> mark_simple_query(st.timings, now), clock |-> now]
          [] msg_type = 80 -> [timings |-> mark_parse(st.timings, now), clock |-> now]
          [] msg_type = 66 -> [timings |-> mark_bind(st.timings, now), clock |-> now]
          [] msg_type = 69 -> [timings |-> mark_execute(st.timings, now), clock |-> now]
          [] OTHER -> st

\* a CommandComplete that consumes the Execute mark together with the SimpleQuery mark
parse_server_message_finishes_both(msg_type, st) ==
    CASE msg_type = 67 ->
            [st EXCEPT !.timings = finish_execute(finish_simple_query(st.timings).state).state]
      [] msg_type = 49 -> [st EXCEPT !.timings = finish_parse(st.timings).state]
      [] msg_type = 50 -> [st EXCEPT !.timings = finish_bind(st.timings).state]
      [] OTHER -> st

\* a decoder whose ErrorResponse arm abandons the requests in flight
parse_server_message_error_clears(msg_type, st) ==
    CASE msg_type = 67 ->
            IF finish_simple_query(st.timings).took # None
            THEN [st EXCEPT !.timings = finish_simple_query(st.timings).state]
            ELSE [st EXCEPT !.timings = finish_execute(st.timings).state]
      [] msg_type = 49 -> [st EXCEPT !.timings = finish_parse(st.timings).state]
      [] msg_type = 50 -> [st EXCEPT !.timings = finish_bind(st.timings).state]
      [] msg_type = 69 -> [st EXCEPT !.timings = TimingStateDefault]
      [] OTHER -> st

\* the timing update of parse_server_message
parse_server_message(msg_type, st) ==
    CASE msg_type = 67 ->
            IF finish_simple_query(st.timings).took # None
            THEN [st EXCEPT !.timings = finish_simple_query(st.timings).state]
            ELSE [st EXCEPT !.timings = finish_execute(st.timings).state]
      [] msg_type = 49 -> [st EXCEPT !.timings = finish_parse(st.timings).state]
      [] msg_type = 50 -> [st EXCEPT !.timings = finish_bind(st.timings).state]
      [] OTHER -> st

\* the duration a completion's log line reports: which slot it came from, and the
\* instant taken from that slot
parse_server_message_took(msg_type, t) ==
    CASE msg_type = 67 ->
            IF finish_simple_query(t).took # None
            THEN [what |-> "query", at |-> finish_simple_query(t).took]
            ELSE IF finish_execute(finish_simple_query(t).state).took # None
            THEN [what |-> "execute", at |-> finish_execute(finish_simple_query(t).state).took]
            ELSE [what |-> "none", at |-> None]
      [] msg_type = 49 ->
            IF finish_parse(t).took # None
            THEN [what |-> "parse", at |-> finish_parse(t).took]
            ELSE [what |-> "none", at |-> None]
      [] msg_type = 50 ->
            IF finish_bind(t).took # None
            THEN [what |-> "bind", at |-> finish_bind(t).took]
            ELSE [what |-> "none", at |-> None]
      [] OTHER -> [what |-> "none", at |-> None]

\* u16::from_be_bytes([b[i], b[i+1]]), i is 1-based
U16(b, i) == b[i] * 256 + b[i + 1]

\* i32::from_be_bytes([b[i], b[i+1], b[i+2], b[i+3]]), i is 1-based
I32(b, i) ==
    (IF b[i] >= 128 THEN b[i] - 256 ELSE b[i]) * 16777216
        + b[i + 1] * 65536 + b[i + 2] * 256 + b[i + 3]

\* `while i < data.len() && data[i] != 0 { i += 1 }`, i is 0-based
RECURSIVE NameEnd(_, _)
NameEnd(data, i) == IF i < Len(data) /\ data[i + 1] # 0 THEN NameEnd(data, i + 1) ELSE i

\* the field loop of parse_row_description: n fields pushed so far
RECURSIVE RowFields(_, _, _, _)
RowFields(data, i, remaining, n) ==
    IF remaining = 0 THEN n
    ELSE LET j == NameEnd(data, i) + 1
         IN  IF j + 18 > Len(data) THEN n
             ELSE RowFields(data, j + 18, remaining - 1, n + 1)

\* parse_row_description: the number of fields of Some(fields), 0 for None
parse_row_description(data) ==
    IF Len(data) < 2 THEN 0 ELSE RowFields(data, 2, U16(data, 1), 0)

\* the value loop of parse_data_row: a length of -1 is NULL, another negative
\* length pushes nothing
RECURSIVE RowValues(_, _, _, _)
RowValues(data, i, remaining, n) ==
    IF remaining = 0 THEN n
    ELSE IF i + 4 > Len(data) THEN n
    ELSE LET length == I32(data, i + 1)
         IN  IF length = -1 THEN RowValues(data, i + 4, remaining - 1, n + 1)
             ELSE IF length >= 0
             THEN IF i + 4 + length > Len(data) THEN n
                  ELSE RowValues(data, i + 4 + length, remaining - 1, n + 1)
             ELSE RowValues(data, i + 4, remaining - 1, n)

\* parse_data_row: the number of values of Some(values), 0 for None
parse_data_row(data) ==
    IF Len(data) < 2 THEN 0 ELSE RowValues(data, 2, U16(data, 1), 0)

\* the table-state update and the log lines of parse_server_message; t = [table, lines]
\* read_cstring: Some(index after the terminator) as <<index>>, None as <<>>; index is
\* 0-based
read_cstring(data, index) ==
    IF index >= Len(data) THEN <<>>
    ELSE LET end == NameEnd(data, index)
         IN  IF end >= Len(data) THEN <<>> ELSE <<end + 1>>

\* the loops pushing `count` format codes from offset i: <<codes, i>>, or <<>> where
\* parse_bind_message returns None
RECURSIVE ReadFormats(_, _, _, _)
ReadFormats(data, i, count, codes) ==
    IF count = 0 THEN <<codes, i>>
    ELSE IF i + 2 > Len(data) THEN <<>>
    ELSE ReadFormats(data, i + 2, count - 1, Append(codes, U16(data, i + 1)))

\* the loop skipping `count` parameter values from offset i: <<i>>, or <<>> for None
RECURSIVE SkipValues(_, _, _)
SkipValues(data, i, count) ==
    IF count = 0 THEN <<i>>
    ELSE IF i + 4 > Len(data) THEN <<>>
    ELSE LET value_len == I32(data, i + 1)
         IN  IF value_len < 0 THEN SkipValues(data, i + 4, count - 1)
             ELSE IF i + 4 + value_len > Len(data) THEN <<>>
             ELSE SkipValues(data, i + 4 + value_len, count - 1)

format_format(code) == IF code = 0 THEN "text" ELSE IF code = 1 THEN "binary" ELSE "unknown"

\* The rendered text "label=X (all)" is [all |-> TRUE, formats |-> <<X>>] and
\* "label=[X, Y]" is [all |-> FALSE, formats |-> <<X, Y>>].
\* a describe_format_codes that lists a single code as it lists several
describe_format_codes_listing(count, codes) ==
    IF count = 0 THEN [all |-> TRUE, formats |-> <<"text">>]
    ELSE [all |-> FALSE, formats |-> [i \in 1..Len(codes) |-> format_format(codes[i])]]

describe_format_codes(count, codes) ==
    IF count = 0 THEN [all |-> TRUE, formats |-> <<"text">>]
    ELSE IF count = 1
    THEN LET code == IF Len(codes) >= 1 THEN codes[1] ELSE 0
         IN  [all |-> TRUE, formats |-> <<format_format(code)>>]
    ELSE [all |-> FALSE, formats |-> [i \in 1..Len(codes) |-> format_format(codes[i])]]

\* parse_bind_message: Some(summary) as <<[Parameters, ParamFormats, ResultFormats]>>,
\* None as <<>>
parse_bind_message(data) ==
    LET portal == read_cstring(data, 0)
    IN  IF portal = <<>> THEN <<>>
        ELSE LET stmt == read_cstring(data, portal[1])
    IN  IF stmt = <<>> THEN <<>>
        ELSE LET i == stmt[1]
    IN  IF i + 2 > Len(data) THEN <<>>
        ELSE LET param_format_count == U16(data, i + 1)
                 param_formats == ReadFormats(data, i + 2, param_format_count, <<>>)
    IN  IF param_formats = <<>> THEN <<>>
        ELSE LET j == param_formats[2]
    IN  IF j + 2 > Len(data) THEN <<>>
        ELSE LET param_count == U16(data, j + 1)
                 skipped == SkipValues(data, j + 2, param_count)
    IN  IF skipped = <<>> THEN <<>>
        ELSE LET k == skipped[1]
    IN  IF k + 2 > Len(data) THEN <<>>
        ELSE LET result_format_count == U16(data, k + 1)
                 result_formats == ReadFormats(data, k + 2, result_format_count, <<>>)
    IN  IF result_formats = <<>> THEN <<>>
        ELSE <<[Parameters |-> param_count,
                ParamFormats |-> describe_format_codes(param_format_count,
                                                       param_formats[1]),
                ResultFormats |-> describe_format_codes(result_format_count,
                                                        result_formats[1])]>>

\* the message kind an arm of parse_client_message logs for a type byte
client_message_name(msg_type) ==
    CASE msg_type = 81 -> "Query"
      [] msg_type = 80 -> "Parse"
      [] msg_type = 66 -> "Bind"
      [] msg_type = 69 -> "Execute"
      [] msg_type = 68 -> "Describe"
      [] msg_type = 83 -> "Sync"
      [] msg_type = 88 -> "Terminate"
      [] msg_type = 112 -> "Password message"
      [] msg_type = 67 -> "Close"
      [] msg_type = 72 -> "Flush"
      [] msg_type = 100 -> "CopyData"
      [] msg_type = 99 -> "CopyDone"
      [] msg_type = 102 -> "CopyFail"
      [] OTHER -> "Unknown message type"

\* the message kind an arm of parse_server_message logs for a type byte
server_message_name(msg_type) ==
    CASE msg_type = 82 -> "Authentication"
      [] msg_type = 75 -> "BackendKeyData"
      [] msg_type = 90 -> "ReadyForQuery"
      [] msg_type = 83 -> "ParameterStatus"
      [] msg_type = 84 -> "RowDescription"
      [] msg_type = 68 -> "DataRow"
      [] msg_type = 67 -> "CommandComplete"
      [] msg_type = 69 -> "ErrorResponse"
      [] msg_type = 78 -> "NoticeResponse"
      [] msg_type = 49 -> "ParseComplete"
      [] msg_type = 50 -> "BindComplete"
      [] msg_type = 51 -> "CloseComplete"
      [] msg_type = 110 -> "NoData"
      [] msg_type = 115 -> "PortalSuspended"
      [] msg_type = 116 -> "ParameterDescription"
      [] msg_type = 73 -> "EmptyQueryResponse"
      [] msg_type = 100 -> "CopyData"
      [] msg_type = 99 -> "CopyDone"
      [] msg_type = 71 -> "CopyInResponse"
      [] msg_type = 72 -> "CopyOutResponse"
      [] msg_type = 87 -> "CopyBothResponse"
      [] OTHER -> "Unknown message type"

\* the log lines of parse_client_message; t = [table, lines].  A Bind logs its line and,
\* when parse_bind_message returns a summary, the summary
parse_client_message_log(msg_type, data, t) ==
    LET logged == [t EXCEPT !.lines = Append(@, Line(client_message_name(msg_type), 0))]
    IN  IF msg_type = 66 /\ parse_bind_message(data) # <<>>
        THEN [logged EXCEPT !.lines = Append(@, Line("Bind summary",
                                                     parse_bind_message(data)[1].Parameters))]
        ELSE logged

\* Message lines carry the count they print ("RowDescription (n fields)", "DataRow (n
\* fields, m bytes)"); Numbered is the "Field i" / "Value i" lines that follow
Numbered(kind, n) == [i \in 1..n |-> Line(kind, i)]

parse_server_message_table(msg_type, data, t) ==
    CASE msg_type = 84 ->
            IF Len(data) >= 2
            THEN LET field_count == U16(data, 1)
                     logged == [t EXCEPT !.lines = Append(@, Line("RowDescription", field_count))]
                 IN  IF parse_row_description(data) > 0
                     THEN LET fields ==
                                [logged EXCEPT !.lines = @ \o Numbered("Field",
                                                                 parse_row_description(data))]
                          IN  IF t.table.table_mode
                              THEN set_row_description(fields, parse_row_description(data))
                              ELSE fields
                     ELSE logged
            ELSE [t EXCEPT !.lines = Append(@, Line("RowDescription without count", 0))]
      [] msg_type = 68 ->
            IF Len(data) >= 2
            THEN LET field_count == U16(data, 1)
                 IN  IF parse_data_row(data) > 0
                     THEN IF t.table.table_mode
                          THEN print_data_row(t, parse_data_row(data))
                          ELSE [t EXCEPT !.lines = Append(@, Line("DataRow", field_count))
                                                     \o Numbered("Value", parse_data_row(data))]
                     ELSE t
            ELSE [t EXCEPT !.lines = Append(@, Line("DataRow without count", Len(data)))]
      [] msg_type = 67 ->
            LET done == IF t.table.table_mode THEN finish_result_set(t) ELSE t
            IN  [done EXCEPT !.lines = Append(@, Line("CommandComplete", 0))]
      [] OTHER -> [t EXCEPT !.lines = Append(@, Line(server_message_name(msg_type), 0))]

\* `match direction` of parse_message that looks at the type byte instead: the
\* completions are handled by the server rules, whoever sent them
dispatch_on_type(direction, msg_type, st) ==
    IF msg_type \in {67, 49, 50}
    THEN parse_server_message(msg_type, st)
    ELSE parse_client_message(msg_type, st)

\* `match direction` of parse_message, for the timing slots
dispatch(direction, msg_type, st) ==
    IF direction = "ClientToServer"
    THEN parse_client_message(msg_type, st)
    ELSE parse_server_message(msg_type, st)

\* `match direction` of parse_message, for the log lines and the table state
dispatch_log(direction, msg_type, data, t) ==
    IF direction = "ClientToServer"
    THEN parse_client_message_log(msg_type, data, t)
    ELSE parse_server_message_table(msg_type, data, t)

\* `&buf[5..length + 1]` panics when its start exceeds its end
SlicePanics(from, to, len) == from > to \/ to > len

\* The frame loop.  data is the chunk, i the offset of `buf` in it, base the
\* chunk's offset in the direction's stream.  r = [frames, timings, clock, panicked].
RECURSIVE ParseLoop(_, _, _, _, _)
ParseLoop(data, i, base, direction, r) ==
    IF Len(data) - i < 5 THEN r
    ELSE LET msg_type == data[i + 1]
             length == U32(data, i + 2)
         IN  IF Len(data) - i < length + 1 THEN r
             ELSE IF SlicePanics(5, length + 1, Len(data) - i)
                  THEN [r EXCEPT !.panicked = TRUE]
                  ELSE LET st == [timings |-> r.timings, clock |-> r.clock]
                           st2 == dispatch(direction, msg_type, st)
                       IN  ParseLoop(data, i + length + 1, base, direction,
                                     [frames |-> Append(r.frames, <<base + i, msg_type, length>>),
                                      timings |-> st2.timings,
                                      clock |-> st2.clock,
                                      panicked |-> FALSE])

\* a frame loop that hands the frames of a chunk to the decoder last-first
parse_message_reversed(data, base, direction, t, clk) ==
    LET r == ParseLoop(data, 0, base, direction,
                       [frames |-> <<>>, timings |-> t, clock |-> clk, panicked |-> FALSE])
    IN  [r EXCEPT !.frames = [i \in 1..Len(r.frames) |-> r.frames[Len(r.frames) + 1 - i]]]

parse_message(data, base, direction, t, clk) ==
    ParseLoop(data, 0, base, direction,
              [frames |-> <<>>, timings |-> t, clock |-> clk, panicked |-> FALSE])

(***************************************************************************)
(* State                                                                   *)
(***************************************************************************)
VARIABLES
    ssl_config,     \* TRUE when a certificate/key is configured (Some(config))
    clientIn,       \* every byte the client sends on its connection, in order
    upstreamIn,     \* every byte the upstream server sends, in order
    peerCloses,     \* per direction: the source peer closes after its last byte (FALSE: it
                    \* stays connected and idle)
    pc,             \* position of handle_connection / run_proxy
    result,         \* "none" while running, then "ok" (Ok(())) or "err" (Err)
    startup_buf,    \* the BytesMut startup_buf
    answer,         \* bytes handle_connection wrote to the client socket
    sslRequested,   \* the branch logging "Client requesting SSL" was taken
    tls,            \* the client stream is the TLS stream
    upstreamOpen,   \* TcpStream::connect to the upstream succeeded
    typedStart,     \* bytes of clientIn consumed before the pumps were spawned
    pos,            \* per direction: bytes read from the source peer so far
    out,            \* per direction: bytes written to the destination peer so far
    pump,           \* per direction: the pump task [pc, buf, n]
    decoded,        \* per direction: frames dispatched to the decoder <<offset, type, length>>
    timings,        \* the TimingState behind ConnectionTiming's mutex
    clock,          \* Instant::now(), counted in marks
    listening,      \* main's accept loop: "accepting", or "accept_failed" once main returned
    conn,           \* per accepted connection: its handler task and its two pump tasks
    mutex,          \* ConnectionTiming.state's Mutex: "free" or the caller holding the guard
    call,           \* per caller: the mark_* / finish_* call it is in
    pending,        \* per kind: mark_* calls stored since the last take of that slot
    lastMark,       \* per kind: the instant stored by the most recent mark_* call since the
                    \* last take of that slot
    finished,       \* the finish_* calls of one kind that returned last (at most two,
                    \* oldest first)
    table,          \* the TableState of a ClientState
    lines,          \* log lines: of the frame dispatched last, or of one TableFormatter
    last,           \* the frame dispatched last, with the slots and table state before it
    errored,        \* per slot: the mark it held when the latest ErrorResponse arrived, until a
                    \* completion empties the slot
    pad_s,          \* pad_or_truncate: the characters of s
    pad_width,      \* pad_or_truncate: width
    pad_out,        \* pad_or_truncate: the characters of the String returned
    value,          \* parse_data_row: a column value, valid UTF-8, as the byte length of each
                    \* of its characters
    shown,          \* parse_data_row: the rendering pushed for that value, or the panic
    bind,           \* one Bind message: its format codes and what parse_bind_message
                    \* returned for its body
    client_pc,      \* pg-client-inspect: position of run()
    password,       \* pg-client-inspect: args.password is Some
    trace,          \* pg-client-inspect: messages written to and read from the stream and
                    \* the report printed, in order
    exit_code,      \* pg-client-inspect: <<>> while running, then <<0>> or <<1>>
    report,         \* pg-client-inspect: the QueryReport of run_extended_query
    formatter_mutex, \* TableState.current_formatter's Mutex: "free" or the pump holding it
    handler         \* per pump: where it is between its socket read and its socket write,
                    \* and the calls its frame still has to make

\* the accept loop and the tasks it spawned
acceptVars == <<listening, conn>>
\* calls on a ConnectionTiming observed one memory access at a time
callVars == <<mutex, call, pending, lastMark, finished>>
\* frames dispatched one at a time to the decoders
decodeVars == <<table, lines, last, errored>>
\* one call of pad_or_truncate
padVars == <<pad_s, pad_width, pad_out, value, shown>>
\* one run of pg-client-inspect
inspectVars == <<client_pc, password, trace, exit_code, report>>
\* the pumps' use of the two mutexes
lockVars == <<formatter_mutex, handler>>
otherVars == <<padVars, bind, inspectVars, lockVars>>

vars == <<ssl_config, clientIn, upstreamIn, peerCloses, pc, result, startup_buf, answer, sslRequested,
          tls, upstreamOpen, typedStart, pos, out, pump, decoded, timings, clock, acceptVars,
          callVars, decodeVars,
          otherVars>>

\* what no step of one connection's handler or pumps changes
inputs == <<ssl_config, clientIn, upstreamIn, peerCloses, acceptVars, callVars, decodeVars,
            otherVars>>
pumpVars == <<pos, out, pump, decoded, timings, clock>>
\* the state of the one connection followed in detail
sessionVars == <<ssl_config, clientIn, upstreamIn, peerCloses, pc, result, startup_buf, answer,
                 sslRequested, tls, upstreamOpen, typedStart, pos, out, pump, decoded, timings,
                 clock>>

C2U == "ClientToServer"
U2C == "ServerToClient"

\* the byte stream a direction's pump reads from
Source(d) == IF d = C2U THEN clientIn ELSE upstreamIn

\* a read from a peer that has sent everything and stays connected does not return
PeerIdle(d) == pos[d] = Len(Source(d)) /\ ~peerCloses[d]

\* a pump that keeps the timings mutex locked while its write is pending
HeldWhileWriting(d) == pump[d].pc = "write"

\* the mutex guards of mark_* and finish_* are temporaries of one statement and the
\* halves of the two sockets are owned by one pump each: a pump waiting in an await
\* holds nothing the other pump needs
HeldAcrossAwait(d) == FALSE

\* the pump buffer capacity, BytesMut::with_capacity(8192)
PumpCap == 8192

\* a loop that forgets buf.clear(): the buffer keeps the bytes of earlier reads
clear_forgotten(buf) == buf

\* BytesMut::clear
clear(buf) == <<>>

\* bytes a read_buf can take: the spare capacity, regrown by 64 when the buffer is full
SpareCapacity(buf, cap) == IF Len(buf) >= cap THEN 64 ELSE cap - Len(buf)

\* sizes a read of a stream with `avail` unread bytes may return: 0 only at EOF
ReadSizes(avail, spare) == IF avail = 0 THEN {0} ELSE 1..Min(avail, spare)

\* a negotiator that refuses SSL whether or not a certificate is configured
SslAnswerAlwaysN(config) == 78

\* the answer byte to an SSL request: b'S' with a config, b'N' without
SslAnswer(config) == IF config THEN 83 ELSE 78

\* the test made on the first packet (the length field is read but not used)
IsSslRequest(buf) == U32(buf, 5) = SslRequestCode

\* a pump task: not spawned yet; ended by break; ended by a panic (its buffer is dropped)
IdlePump == [pc |-> "idle", buf |-> <<>>, n |-> 0]
Exited == [pc |-> "exit", buf |-> <<>>, n |-> 0]
Panicked == [pc |-> "panicked", buf |-> <<>>, n |-> 0]

\* the connections of the accept loop; a slot no connection has used yet
Connections == 1..MaxConnections
NoTask == [handler |-> "none", pump |-> [d \in Dirs |-> "idle"],
           idle |-> [d \in Dirs |-> FALSE], logged |-> FALSE]

\* the accept loop as seen from the one connection followed in detail
OneConnection ==
    /\ listening = "accepting"
    /\ conn = [c \in Connections |-> NoTask]

\* no frame has been dispatched; a ClientState without table mode
NoFrame == [direction |-> "none", method |-> "none", msg_type |-> 0, data |-> <<>>, parsed |-> 0,
            timings |-> TimingStateDefault,
            table |-> TableStateNew(FALSE), took |-> [what |-> "none", at |-> None],
            errored |-> TimingStateDefault]
NoDecoder ==
    /\ table = TableStateNew(FALSE)
    /\ lines = <<>>
    /\ last = NoFrame
    /\ errored = TimingStateDefault

\* a caller outside any ConnectionTiming call; no finish_* has returned yet
\* (of a finish_* call: whether it obtained Some, how many marks its slot had received
\* since the last take, and whether the instant it obtained is the most recent mark's)
NoCall == [pc |-> "idle", op |-> "none", kind |-> "none", now |-> None, some |-> FALSE,
           marks |-> 0, fromLatest |-> FALSE, by |-> "none"]
NoCalls ==
    /\ mutex = "free"
    /\ call = [p \in Dirs |-> NoCall]
    /\ pending = [k \in Kinds |-> 0]
    /\ lastMark = [k \in Kinds |-> None]
    /\ finished = <<>>

\* pad_or_truncate is not called
NotCalled == <<"not called">>
NotShown == [kind |-> "none", kept |-> 0, bytes |-> 0]
NoPad ==
    /\ pad_s = <<>>
    /\ pad_width = 0
    /\ pad_out = NotCalled
    /\ value = <<>>
    /\ shown = NotShown
\* parse_bind_message is not called
NoBind == bind = [param_formats |-> <<>>, params |-> 0, result_formats |-> <<>>, cut |-> FALSE,
                  called |-> FALSE, info |-> <<>>]
\* pg-client-inspect is not run
\* QueryReport::default(); fields is 0 for no fields or the body of a RowDescription,
\* command_tag <<>> for None or <<tag>>
QueryReportDefault ==
    [parse_complete |-> FALSE, bind_complete |-> FALSE, fields |-> 0, rows |-> <<>>,
     command_tag |-> <<>>]
NoInspect ==
    /\ client_pc = "not run"
    /\ password = FALSE
    /\ trace = <<>>
    /\ exit_code = <<>>
    /\ report = QueryReportDefault
\* no pump is decoding
Awaiting == [pc |-> "await", todo |-> <<>>]
NoLocks ==
    /\ formatter_mutex = "free"
    /\ handler = [p \in Dirs |-> Awaiting]
NoOther == NoPad /\ NoBind /\ NoInspect /\ NoLocks

\* ssl_config is read only on the SSL branch of handle_connection: both values are
\* enumerated for the first packets that take that branch, one value for the others.
Init ==
    /\ clientIn \in ClientStreams
    /\ ssl_config \in IF Len(clientIn) >= 8 /\ IsSslRequest(clientIn) THEN BOOLEAN ELSE {FALSE}
    /\ upstreamIn \in ServerStreams
    /\ peerCloses = [d \in Dirs |-> TRUE]
    /\ pc = "init"
    /\ result = "none"
    /\ startup_buf = <<>>
    /\ answer = <<>>
    /\ sslRequested = FALSE
    /\ tls = FALSE
    /\ upstreamOpen = FALSE
    /\ typedStart = 0
    /\ pos = [d \in Dirs |-> 0]
    /\ out = [d \in Dirs |-> <<>>]
    /\ pump = [d \in Dirs |-> IdlePump]
    /\ decoded = [d \in Dirs |-> <<>>]
    /\ timings = TimingStateDefault
    /\ clock = 0
    /\ OneConnection
    /\ NoCalls
    /\ NoOther
    /\ NoDecoder

(***************************************************************************)
(* handle_connection                                                       *)
(***************************************************************************)
\* `?` on a failed await: handle_connection returns Err
ReturnErr ==
    /\ pc' = "done"
    /\ result' = "err"

\* The first read_buf into startup_buf and everything up to the next await.
ReadStartup ==
    /\ pc = "init"
    /\ ~PeerIdle(C2U)
    /\ UNCHANGED <<inputs, tls, upstreamOpen, typedStart, out, pump, decoded, timings, clock>>
    /\ \/ \* the read fails: "Failed to read startup"
          /\ ReturnErr
          /\ UNCHANGED <<startup_buf, answer, sslRequested, pos>>
       \/ \E n \in ReadSizes(Len(clientIn) - pos[C2U], SpareCapacity(startup_buf, StartupCap)) :
             LET buf == startup_buf \o Slice(clientIn, pos[C2U], pos[C2U] + n)
             IN  /\ pos' = [pos EXCEPT ![C2U] = @ + n]
                 /\ IF Len(buf) < 8
                    THEN \* "Client disconnected during startup"
                         /\ pc' = "done"
                         /\ result' = "ok"
                         /\ startup_buf' = buf
                         /\ UNCHANGED <<answer, sslRequested>>
                    ELSE IF IsSslRequest(buf)
                    THEN /\ sslRequested' = TRUE
                         /\ \/ \* write_all(&[b'S' | b'N']) fails
                               /\ ReturnErr
                               /\ startup_buf' = buf
                               /\ UNCHANGED answer
                            \/ /\ answer' = Append(answer, SslAnswer(ssl_config))
                               /\ result' = "none"
                               /\ IF ssl_config
                                  THEN pc' = "handshake" /\ startup_buf' = buf
                                  ELSE pc' = "ssl_read" /\ startup_buf' = clear(buf)
                    ELSE /\ pc' = "connect"
                         /\ result' = "none"
                         /\ startup_buf' = buf
                         /\ UNCHANGED <<answer, sslRequested>>

\* acceptor.accept(client_socket), then startup_buf.clear()
TlsHandshake ==
    /\ pc = "handshake"
    /\ UNCHANGED <<inputs, answer, sslRequested, upstreamOpen, typedStart, pumpVars>>
    /\ \/ \* "SSL handshake failed"
          /\ ReturnErr
          /\ UNCHANGED <<startup_buf, tls>>
       \/ /\ tls' = TRUE
          /\ startup_buf' = clear(startup_buf)
          /\ pc' = "ssl_read"
          /\ result' = "none"

\* the read_buf of "the actual startup message" after the answer byte
ReadRealStartup ==
    /\ pc = "ssl_read"
    /\ ~PeerIdle(C2U)
    /\ UNCHANGED <<inputs, answer, sslRequested, tls, upstreamOpen, typedStart,
                   out, pump, decoded, timings, clock>>
    /\ \/ \* "Failed to read startup after SSL" / "after SSL rejection"
          /\ ReturnErr
          /\ UNCHANGED <<startup_buf, pos>>
       \/ \E n \in ReadSizes(Len(clientIn) - pos[C2U], SpareCapacity(startup_buf, StartupCap)) :
             /\ startup_buf' = startup_buf \o Slice(clientIn, pos[C2U], pos[C2U] + n)
             /\ pos' = [pos EXCEPT ![C2U] = @ + n]
             /\ pc' = "connect"
             /\ result' = "none"

\* proxy_with_tcp / proxy_with_tls: TcpStream::connect to the upstream
ConnectUpstream ==
    /\ pc = "connect"
    /\ UNCHANGED <<inputs, startup_buf, answer, sslRequested, tls, typedStart, pumpVars>>
    /\ \/ \* "Failed to connect to upstream"
          /\ ReturnErr
          /\ UNCHANGED upstreamOpen
       \/ /\ upstreamOpen' = TRUE
          /\ pc' = "run_proxy"
          /\ result' = "none"

(***************************************************************************)
(* run_proxy                                                               *)
(***************************************************************************)
\* upstream_socket.write_all(&startup_buf), then both pumps are spawned
ForwardStartup ==
    /\ pc = "run_proxy"
    /\ UNCHANGED <<inputs, startup_buf, answer, sslRequested, tls, upstreamOpen,
                   pos, decoded, timings, clock>>
    /\ \/ \* the write fails after k bytes
          /\ ReturnErr
          /\ \E k \in 0..(Len(startup_buf) - 1) :
                out' = [out EXCEPT ![C2U] = @ \o Slice(startup_buf, 0, k)]
          /\ UNCHANGED <<typedStart, pump>>
       \/ /\ out' = [out EXCEPT ![C2U] = @ \o startup_buf]
          /\ typedStart' = pos[C2U]
          /\ pump' = [d \in Dirs |-> [pc |-> "read", buf |-> <<>>, n |-> 0]]
          /\ pc' = "select"
          /\ result' = "none"

\* One pump iteration up to its write: buf.clear() was done, read_buf, then
\* parse_message(&buf[..n]) before the write is started.
PumpRead(d) ==
    /\ pump[d].pc = "read"
    /\ ~PeerIdle(d)
    /\ \A e \in Dirs \ {d} : ~HeldAcrossAwait(e)
    /\ UNCHANGED <<inputs, pc, result, startup_buf, answer, sslRequested, tls,
                   upstreamOpen, typedStart, out>>
    /\ \/ \* Err(e): "Failed to read from ..."; break
          /\ pump' = [pump EXCEPT ![d] = Exited]
          /\ UNCHANGED <<pos, decoded, timings, clock>>
       \/ \E n \in ReadSizes(Len(Source(d)) - pos[d], SpareCapacity(pump[d].buf, PumpCap)) :
             IF n = 0
             THEN \* Ok(0): the peer closed; break
                  /\ pump' = [pump EXCEPT ![d] = Exited]
                  /\ UNCHANGED <<pos, decoded, timings, clock>>
             ELSE LET buf == pump[d].buf \o Slice(Source(d), pos[d], pos[d] + n)
                      r == parse_message(Slice(buf, 0, n), pos[d], d, timings, clock)
                  IN  /\ pos' = [pos EXCEPT ![d] = @ + n]
                      /\ decoded' = [decoded EXCEPT ![d] = @ \o r.frames]
                      /\ timings' = r.timings
                      /\ clock' = r.clock
                      /\ pump' = [pump EXCEPT ![d] =
                                    IF r.panicked THEN Panicked
                                    ELSE [pc |-> "write", buf |-> buf, n |-> n]]

\* write_all(&buf[..n]) to the opposite peer, then back to the loop head (buf.clear())
PumpWrite(d) ==
    /\ pump[d].pc = "write"
    /\ \A e \in Dirs \ {d} : ~HeldAcrossAwait(e)
    /\ UNCHANGED <<inputs, pc, result, startup_buf, answer, sslRequested, tls,
                   upstreamOpen, typedStart, pos, decoded, timings, clock>>
    /\ \/ \* the write fails after k bytes: "Failed to write to ..."; break
          \E k \in 0..(pump[d].n - 1) :
             /\ out' = [out EXCEPT ![d] = @ \o Slice(pump[d].buf, 0, k)]
             /\ pump' = [pump EXCEPT ![d] = Exited]
       \/ /\ out' = [out EXCEPT ![d] = @ \o Slice(pump[d].buf, 0, pump[d].n)]
          /\ pump' = [pump EXCEPT ![d] = [pc |-> "read", buf |-> clear(pump[d].buf), n |-> 0]]

\* a pump task has finished, by leaving its loop or by a panic
Finished(d) == pump[d].pc \in {"exit", "panicked"}

\* tokio::select! over the two JoinHandles, the final log line, Ok(())
RunProxyReturn ==
    /\ pc = "select"
    /\ \E d \in Dirs : Finished(d)
    /\ pc' = "done"
    /\ result' = "ok"
    /\ UNCHANGED <<inputs, startup_buf, answer, sslRequested, tls, upstreamOpen,
                   typedStart, pumpVars>>

Next ==
    \/ ReadStartup
    \/ TlsHandshake
    \/ ReadRealStartup
    \/ ConnectUpstream
    \/ ForwardStartup
    \/ \E d \in Dirs : PumpRead(d)
    \/ \E d \in Dirs : PumpWrite(d)
    \/ RunProxyReturn

Spec == Init /\ [][Next]_vars

(***************************************************************************)
(* Sessions whose peers may stay connected and idle                        *)
(***************************************************************************)
IdleClientStreams ==
    {Startup8, Startup8 \o QueryFrame, SSLRequest \o Startup8}

InitIdlePeers ==
    /\ clientIn \in IdleClientStreams
    /\ ssl_config \in IF IsSslRequest(clientIn) THEN BOOLEAN ELSE {FALSE}
    /\ upstreamIn \in ServerStreams
    /\ peerCloses \in [Dirs -> BOOLEAN]
    /\ pc = "init"
    /\ result = "none"
    /\ startup_buf = <<>>
    /\ answer = <<>>
    /\ sslRequested = FALSE
    /\ tls = FALSE
    /\ upstreamOpen = FALSE
    /\ typedStart = 0
    /\ pos = [d \in Dirs |-> 0]
    /\ out = [d \in Dirs |-> <<>>]
    /\ pump = [d \in Dirs |-> IdlePump]
    /\ decoded = [d \in Dirs |-> <<>>]
    /\ timings = TimingStateDefault
    /\ clock = 0
    /\ OneConnection
    /\ NoCalls
    /\ NoOther
    /\ NoDecoder

SpecIdlePeers == InitIdlePeers /\ [][Next]_vars

(***************************************************************************)
(* main: the accept loop and the tasks of every connection                 *)
(***************************************************************************)
\* no connection is followed in detail
NoSession ==
    /\ ssl_config = FALSE
    /\ clientIn = <<>>
    /\ upstreamIn = <<>>
    /\ peerCloses = [d \in Dirs |-> TRUE]
    /\ pc = "done"
    /\ result = "ok"
    /\ startup_buf = <<>>
    /\ answer = <<>>
    /\ sslRequested = FALSE
    /\ tls = FALSE
    /\ upstreamOpen = FALSE
    /\ typedStart = 0
    /\ pos = [d \in Dirs |-> 0]
    /\ out = [d \in Dirs |-> <<>>]
    /\ pump = [d \in Dirs |-> IdlePump]
    /\ decoded = [d \in Dirs |-> <<>>]
    /\ timings = TimingStateDefault
    /\ clock = 0

InitAccept ==
    /\ NoSession
    /\ listening = "accepting"
    /\ conn = [c \in Connections |-> NoTask]
    /\ NoCalls
    /\ NoOther
    /\ NoDecoder

\* a task dropped with the runtime when main returns
Cancelled(task) ==
    [task EXCEPT !.handler = IF @ \in {"negotiating", "proxying"} THEN "cancelled" ELSE @,
                 !.pump = [d \in Dirs |-> IF @[d] = "running" THEN "cancelled" ELSE @[d]]]

\* listener.accept() returns a socket and the handler is spawned; each peer of the
\* connection either goes on to close or stays connected and idle
Accept ==
    /\ listening = "accepting"
    /\ \E c \in Connections :
          /\ conn[c].handler = "none"
          /\ \A b \in 1..(c - 1) : conn[b].handler # "none"
          /\ \E i \in [Dirs -> BOOLEAN] :
                conn' = [conn EXCEPT ![c] = [NoTask EXCEPT !.handler = "negotiating", !.idle = i]]
    /\ UNCHANGED <<listening, sessionVars, callVars, decodeVars, otherVars>>

\* `listener.accept().await?` fails: main returns and the runtime drops every task
AcceptFails ==
    /\ listening = "accepting"
    /\ listening' = "accept_failed"
    /\ conn' = [c \in Connections |-> Cancelled(conn[c])]
    /\ UNCHANGED <<sessionVars, callVars, decodeVars, otherVars>>

\* handle_connection returns Err (failed handshake, unreachable upstream, failed
\* read or write of the negotiation): the task logs "Connection error" and ends,
\* dropping the client socket
HandlerFails(c) ==
    /\ conn[c].handler = "negotiating"
    /\ conn' = [conn EXCEPT ![c].handler = "err", ![c].logged = TRUE]
    /\ UNCHANGED <<listening, sessionVars, callVars, decodeVars, otherVars>>

\* handle_connection returns Ok before run_proxy: "Client disconnected during startup"
HandlerLeaves(c) ==
    /\ conn[c].handler = "negotiating"
    /\ conn' = [conn EXCEPT ![c].handler = "ok"]
    /\ UNCHANGED <<listening, sessionVars, callVars, decodeVars, otherVars>>

\* run_proxy spawns the two pumps and waits in select!
SpawnPumps(c) ==
    /\ conn[c].handler = "negotiating"
    /\ conn' = [conn EXCEPT ![c].handler = "proxying",
                             ![c].pump = [d \in Dirs |-> "running"]]
    /\ UNCHANGED <<listening, sessionVars, callVars, decodeVars, otherVars>>

\* a pump ends: Ok(0) from its peer, a failed read or write, or a panic of the
\* decoder on a chunk; none of them happens while its peer sends nothing and stays
\* connected
PumpStops(c, d) ==
    /\ conn[c].pump[d] = "running"
    /\ ~conn[c].idle[d]
    /\ \E how \in {"exit", "io_error", "panicked"} :
          conn' = [conn EXCEPT ![c].pump[d] = how]
    /\ UNCHANGED <<listening, sessionVars, callVars, decodeVars, otherVars>>

\* select! returns when either pump has ended; run_proxy returns Ok(())
HandlerReturns(c) ==
    /\ conn[c].handler = "proxying"
    /\ \E d \in Dirs : conn[c].pump[d] \in {"exit", "io_error", "panicked"}
    /\ conn' = [conn EXCEPT ![c].handler = "ok"]
    /\ UNCHANGED <<listening, sessionVars, callVars, decodeVars, otherVars>>

(***************************************************************************)
(* ConnectionTiming called by the two pumps, one memory access at a time   *)
(***************************************************************************)
\* the session's variables other than the timing slots and the clock
connectionVars == <<ssl_config, clientIn, upstreamIn, peerCloses, pc, result, startup_buf,
                    answer, sslRequested, tls, upstreamOpen, typedStart, pos, out, pump,
                    decoded>>

InitCalls ==
    /\ NoSession
    /\ OneConnection
    /\ NoCalls
    /\ NoOther
    /\ NoDecoder

\* mark_<k>(): the assigned value Some(Instant::now()) is evaluated, then lock() is called
CallMark(p, k) ==
    /\ call[p].pc = "idle"
    /\ clock < MaxMarks
    /\ clock' = clock + 1
    /\ call' = [call EXCEPT ![p] = [NoCall EXCEPT !.pc = "lock", !.op = "mark", !.kind = k,
                                                   !.now = clock + 1, !.by = p]]
    /\ UNCHANGED <<connectionVars, acceptVars, otherVars, decodeVars, timings, mutex, pending, lastMark, finished>>

\* finish_<k>(): lock() is called
CallFinish(p, k) ==
    /\ call[p].pc = "idle"
    /\ call' = [call EXCEPT ![p] = [NoCall EXCEPT !.pc = "lock", !.op = "finish", !.kind = k,
                                                   !.by = p]]
    /\ UNCHANGED <<connectionVars, acceptVars, otherVars, decodeVars, timings, clock, mutex, pending, lastMark,
                   finished>>

\* lock().unwrap() returns the guard
Acquire(p) ==
    /\ call[p].pc = "lock"
    /\ lock(mutex)
    /\ mutex' = p
    /\ call' = [call EXCEPT ![p].pc = "locked"]
    /\ UNCHANGED <<connectionVars, acceptVars, otherVars, decodeVars, timings, clock, pending, lastMark, finished>>

\* the store of mark_<k>; the guard is dropped at the end of the statement
Store(p) ==
    /\ call[p].pc = "locked"
    /\ call[p].op = "mark"
    /\ timings' = mark(call[p].kind, timings, call[p].now)
    /\ pending' = [pending EXCEPT ![call[p].kind] = @ + 1]
    /\ lastMark' = [lastMark EXCEPT ![call[p].kind] = call[p].now]
    /\ mutex' = "free"
    /\ call' = [call EXCEPT ![p] = NoCall]
    /\ UNCHANGED <<connectionVars, acceptVars, otherVars, decodeVars, clock, finished>>

\* Option::take, first half: the slot's value is read
TakeRead(p) ==
    /\ call[p].pc = "locked"
    /\ call[p].op = "finish"
    /\ call' = [call EXCEPT ![p].pc = "taken",
                             ![p].some = finish(call[p].kind, timings).took # None,
                             ![p].marks = pending[call[p].kind],
                             ![p].fromLatest =
                                 finish(call[p].kind, timings).took = lastMark[call[p].kind]]
    /\ pending' = [pending EXCEPT ![call[p].kind] = 0]
    /\ lastMark' = [lastMark EXCEPT ![call[p].kind] = None]
    /\ UNCHANGED <<connectionVars, acceptVars, otherVars, decodeVars, timings, clock, mutex, finished>>

\* Option::take, second half: None is written to the slot; the guard is dropped and
\* the call returns what it read
TakeClear(p) ==
    /\ call[p].pc = "taken"
    /\ timings' = finish(call[p].kind, timings).state
    /\ mutex' = "free"
    /\ finished' = IF finished # <<>> /\ finished[Len(finished)].kind = call[p].kind
                    THEN <<finished[Len(finished)], call[p]>>
                    ELSE <<call[p]>>
    /\ call' = [call EXCEPT ![p] = NoCall]
    /\ UNCHANGED <<connectionVars, acceptVars, otherVars, decodeVars, clock, pending, lastMark>>

NextCalls ==
    \/ \E p \in Dirs, k \in Kinds : CallMark(p, k)
    \/ \E p \in Dirs, k \in Kinds : CallFinish(p, k)
    \/ \E p \in Dirs : Acquire(p)
    \/ \E p \in Dirs : Store(p)
    \/ \E p \in Dirs : TakeRead(p)
    \/ \E p \in Dirs : TakeClear(p)

SpecCalls == InitCalls /\ [][NextCalls]_vars

(***************************************************************************)
(* Frames dispatched one at a time to parse_client_message and             *)
(* parse_server_message with one ConnectionTiming and one ClientState      *)
(***************************************************************************)
\* client message types: Q P B E D S X p C H d c f and an unknown one
ClientTypes == {81, 80, 66, 69, 68, 83, 88, 112, 67, 72, 100, 99, 102, 63}

\* RowDescription bodies: one field named "a"; the same cut after the name
RowDescriptionOne == <<0, 1, 97, 0>> \o [i \in 1..18 |-> 0]
RowDescriptionCut == <<0, 1, 97, 0>>
\* DataRow bodies: the values 'x' and NULL; one value whose length field exceeds the body
DataRowTwo == <<0, 2, 0, 0, 0, 1, 120, 255, 255, 255, 255>>
DataRowCut == <<0, 1, 0, 0, 0, 9, 120>>

\* the second of two values is cut
DataRowPartial == <<0, 2, 0, 0, 0, 1, 120, 0, 0, 0, 9, 121>>
\* Bind bodies: portal "", statement "s", no parameter, one binary result format; the
\* same without its last byte
BindWhole == <<0, 115, 0, 0, 0, 0, 0, 0, 1, 0, 1>>
BindCut == <<0, 115, 0, 0, 0, 0, 0, 0, 1, 0>>

\* client messages: one frame of each type, and a Bind cut short
ClientMessages ==
    {[type |-> msg_type, data |-> IF msg_type = 66 THEN BindWhole ELSE <<0>>] :
        msg_type \in ClientTypes}
        \cup {[type |-> 66, data |-> BindCut]}

\* server messages: T D C E I 1 2, ParameterStatus and ReadyForQuery
ServerMessages ==
    {[type |-> 84, data |-> RowDescriptionOne], [type |-> 84, data |-> RowDescriptionCut],
     [type |-> 68, data |-> DataRowTwo], [type |-> 68, data |-> DataRowCut],
     [type |-> 68, data |-> DataRowPartial],
     [type |-> 67, data |-> <<0>>], [type |-> 69, data |-> <<0>>], [type |-> 73, data |-> <<>>],
     [type |-> 49, data |-> <<>>], [type |-> 50, data |-> <<>>], [type |-> 83, data |-> <<0, 0>>],
     [type |-> 90, data |-> <<73>>]}

InitDecode ==
    /\ NoSession
    /\ OneConnection
    /\ NoCalls
    /\ NoOther
    /\ \E table_mode \in BOOLEAN : table = TableStateNew(table_mode)
    /\ lines = <<>>
    /\ last = NoFrame
    /\ errored = TimingStateDefault

\* the slot a completion's duration was taken from
SlotOf(what) ==
    CASE what = "query" -> "simple_query"
      [] what = "execute" -> "execute"
      [] what = "parse" -> "parse"
      [] what = "bind" -> "bind"

\* the marks left by requests that ended in ErrorResponse: those set when an ErrorResponse
\* arrives, each until a completion takes its slot
ErroredAfter(msg_type, t, e) ==
    IF msg_type = 69 THEN t
    ELSE LET took == parse_server_message_took(msg_type, t)
         IN  IF took.what = "none" THEN e ELSE [e EXCEPT ![SlotOf(took.what)] = None]

\* parse_message on one client frame
DispatchClient(m) ==
    LET st == dispatch(C2U, m.type, [timings |-> timings, clock |-> clock])
        t == dispatch_log(C2U, m.type, m.data, [table |-> table, lines |-> <<>>])
    IN  /\ st.clock <= MaxMarks
        /\ timings' = st.timings
        /\ clock' = st.clock
        /\ table' = t.table
        /\ lines' = t.lines
        /\ last' = [direction |-> C2U, method |-> "none", msg_type |-> m.type, data |-> m.data, parsed |-> 0,
                    timings |-> timings, table |-> table,
                    took |-> [what |-> "none", at |-> None], errored |-> errored]
        /\ UNCHANGED <<connectionVars, acceptVars, otherVars, callVars, errored>>

\* parse_message on one server frame
DispatchServer(m) ==
    LET st == dispatch(U2C, m.type, [timings |-> timings, clock |-> clock])
        t == dispatch_log(U2C, m.type, m.data, [table |-> table, lines |-> <<>>])
    IN  /\ timings' = st.timings
        /\ table' = t.table
        /\ lines' = t.lines
        /\ last' = [direction |-> U2C, method |-> "none", msg_type |-> m.type, data |-> m.data,
                    parsed |-> IF m.type = 84 THEN parse_row_description(m.data)
                               ELSE IF m.type = 68 THEN parse_data_row(m.data) ELSE 0,
                    timings |-> timings, table |-> table,
                    took |-> parse_server_message_took(m.type, timings), errored |-> errored]
        /\ errored' = ErroredAfter(m.type, timings, errored)
        /\ UNCHANGED <<connectionVars, acceptVars, otherVars, callVars, clock>>

NextDecode ==
    \/ \E m \in ClientMessages : DispatchClient(m)
    \/ \E m \in ServerMessages : DispatchServer(m)

SpecDecode == InitDecode /\ [][NextDecode]_vars

(***************************************************************************)
(* The decoder with the methods of its TableState also called directly, in *)
(* any order and number, with table mode on or off.  `lines` is the output *)
(* of the last call, `last` records that it was a call and the TableState  *)
(* before it.                                                              *)
(***************************************************************************)
TableCall == [NoFrame EXCEPT !.direction = "TableState", !.table = table, !.errored = errored]

SetRowDescription(fields) ==
    LET t == set_row_description([table |-> table, lines |-> <<>>], fields)
    IN  /\ table' = t.table
        /\ lines' = t.lines
        /\ last' = [TableCall EXCEPT !.method = "set_row_description", !.parsed = fields]
        /\ UNCHANGED errored
        /\ UNCHANGED <<sessionVars, acceptVars, otherVars, callVars>>

PrintDataRow(values) ==
    LET t == print_data_row([table |-> table, lines |-> <<>>], values)
    IN  /\ table' = t.table
        /\ lines' = t.lines
        /\ last' = [TableCall EXCEPT !.method = "print_data_row", !.parsed = values]
        /\ UNCHANGED errored
        /\ UNCHANGED <<sessionVars, acceptVars, otherVars, callVars>>

FinishResultSet ==
    LET t == finish_result_set([table |-> table, lines |-> <<>>])
    IN  /\ table' = t.table
        /\ lines' = t.lines
        /\ last' = [TableCall EXCEPT !.method = "finish_result_set"]
        /\ UNCHANGED errored
        /\ UNCHANGED <<sessionVars, acceptVars, otherVars, callVars>>

NextTable ==
    \/ \E m \in ClientMessages : DispatchClient(m)
    \/ \E m \in ServerMessages : DispatchServer(m)
    \/ \E fields \in 1..MaxColumns : SetRowDescription(fields)
    \/ \E values \in 1..MaxColumns : PrintDataRow(values)
    \/ FinishResultSet

SpecTable == InitDecode /\ [][NextTable]_vars

(***************************************************************************)
(* One TableFormatter under any sequence of calls                          *)
(***************************************************************************)
InitFormatter ==
    /\ NoSession
    /\ OneConnection
    /\ NoCalls
    /\ NoOther
    /\ \E fields \in 1..MaxColumns :
          table = [table_mode |-> TRUE, current_formatter |-> <<TableFormatterNew(fields)>>]
    /\ lines = <<>>
    /\ last = NoFrame
    /\ errored = TimingStateDefault

\* the formatter followed, with the lines it has logged
Formatter == [f |-> table.current_formatter[1], lines |-> lines]

\* formatter.print_header(..); the log is followed up to MaxLines lines
PrintHeader ==
    LET o == print_header(Formatter)
    IN  /\ Len(o.lines) <= MaxLines
        /\ table' = [table EXCEPT !.current_formatter = <<o.f>>]
        /\ lines' = o.lines
        /\ UNCHANGED <<sessionVars, acceptVars, otherVars, callVars, last, errored>>

\* formatter.print_row(values, ..), with any number of values
PrintRow ==
    \E values \in 0..MaxColumns :
        LET o == print_row(Formatter, values)
        IN  /\ Len(o.lines) <= MaxLines
            /\ table' = [table EXCEPT !.current_formatter = <<o.f>>]
            /\ lines' = o.lines
            /\ UNCHANGED <<sessionVars, acceptVars, otherVars, callVars, last, errored>>

\* formatter.print_footer(..)
PrintFooter ==
    LET o == print_footer(Formatter)
    IN  /\ Len(o.lines) <= MaxLines
        /\ table' = [table EXCEPT !.current_formatter = <<o.f>>]
        /\ lines' = o.lines
        /\ UNCHANGED <<sessionVars, acceptVars, otherVars, callVars, last, errored>>

NextFormatter ==
    \/ PrintHeader
    \/ PrintRow
    \/ PrintFooter

SpecFormatter == InitFormatter /\ [][NextFormatter]_vars

(***************************************************************************)
(* pad_or_truncate alone: one call on every string of at most MaxChars     *)
(* characters and every width up to MaxWidth.                              *)
(***************************************************************************)
Strings == UNION {[1..n -> Chars] : n \in 0..MaxChars}

InitPad ==
    /\ NoSession
    /\ OneConnection
    /\ NoCalls
    /\ NoDecoder
    /\ NoBind
    /\ NoInspect
    /\ NoLocks
    /\ pad_s \in Strings
    /\ pad_width \in 0..MaxWidth
    /\ pad_out = NotCalled
    /\ value = <<>>
    /\ shown = NotShown

PadOrTruncate ==
    /\ pad_out = NotCalled
    /\ pad_out' = pad_or_truncate(pad_s, pad_width)
    /\ UNCHANGED <<sessionVars, acceptVars, callVars, decodeVars, bind, inspectVars,
                   lockVars, pad_s, pad_width, value, shown>>

NextPad == PadOrTruncate

SpecPad == InitPad /\ [][NextPad]_vars

(***************************************************************************)
(* parse_data_row's rendering of one text value.  A valid UTF-8 value is   *)
(* the sequence of its characters' byte lengths (1..4 each); the values    *)
(* tried are ASCII up to a few bytes before offset 100, one character of 1 *)
(* to 4 bytes, and an ASCII tail.                                          *)
(***************************************************************************)
\* `if s.len() > 100` and `&s[..100]`
TruncateAt == 100
MaxBack == 4
MaxTail == 5

Ascii(n) == [i \in 1..n |-> 1]
Values ==
    {Ascii(TruncateAt - k) \o <<w>> \o Ascii(m) : k \in 0..MaxBack, w \in 1..4, m \in 0..MaxTail}

\* s.len(): the length of a str in bytes
RECURSIVE str_len(_)
str_len(s) == IF s = <<>> THEN 0 ELSE Head(s) + str_len(Tail(s))

\* str::is_char_boundary: index is the start of a character or the end of the string
is_char_boundary(s, index) ==
    \E j \in 0..Len(s) : str_len(SubSeq(s, 1, j)) = index

\* the characters of &s[..index], which panics when index is inside a character
CharsBefore(s, index) ==
    CHOOSE j \in 0..Len(s) : str_len(SubSeq(s, 1, j)) = index

\* the Ok(s) arm of parse_data_row: the value whole, or its first 100 bytes with the
\* byte count
render_text(s) ==
    IF str_len(s) > TruncateAt
    THEN IF is_char_boundary(s, TruncateAt)
         THEN [kind |-> "shortened", kept |-> CharsBefore(s, TruncateAt), bytes |-> str_len(s)]
         ELSE [kind |-> "panic", kept |-> 0, bytes |-> 0]
    ELSE [kind |-> "whole", kept |-> Len(s), bytes |-> str_len(s)]

InitValue ==
    /\ NoSession
    /\ OneConnection
    /\ NoCalls
    /\ NoDecoder
    /\ NoBind
    /\ NoInspect
    /\ NoLocks
    /\ pad_s = <<>>
    /\ pad_width = 0
    /\ pad_out = NotCalled
    /\ value \in Values
    /\ shown = NotShown

RenderValue ==
    /\ shown = NotShown
    /\ shown' = render_text(value)
    /\ UNCHANGED <<sessionVars, acceptVars, callVars, decodeVars, bind, inspectVars,
                   lockVars, pad_s, pad_width, pad_out, value>>

NextValue == RenderValue

SpecValue == InitValue /\ [][NextValue]_vars

(***************************************************************************)
(* parse_bind_message alone: one call on the body of a Bind with portal    *)
(* "", statement "s", up to MaxCodes parameter format codes, no parameter  *)
(* or one, and up to MaxCodes result format codes; `cut` drops the last    *)
(* byte of the body.                                                       *)
(***************************************************************************)
FormatCodes == {0, 1, 2}
CodeLists == UNION {[1..n -> FormatCodes] : n \in 0..MaxCodes}
U16Bytes(n) == <<n \div 256, n % 256>>
RECURSIVE CodeBytes(_)
CodeBytes(codes) ==
    IF codes = <<>> THEN <<>> ELSE U16Bytes(Head(codes)) \o CodeBytes(Tail(codes))

BindBody(param_formats, params, result_formats) ==
    <<0, 115, 0>>
        \o U16Bytes(Len(param_formats)) \o CodeBytes(param_formats)
        \o U16Bytes(params) \o (IF params = 1 THEN <<0, 0, 0, 1, 120>> ELSE <<>>)
        \o U16Bytes(Len(result_formats)) \o CodeBytes(result_formats)

BindData(b) ==
    LET data == BindBody(b.param_formats, b.params, b.result_formats)
    IN  IF b.cut THEN SubSeq(data, 1, Len(data) - 1) ELSE data

InitBind ==
    /\ NoSession
    /\ OneConnection
    /\ NoCalls
    /\ NoDecoder
    /\ NoPad
    /\ NoInspect
    /\ NoLocks
    /\ \E param_formats \in CodeLists, params \in 0..1, result_formats \in CodeLists,
          cut \in BOOLEAN :
            bind = [param_formats |-> param_formats, params |-> params,
                    result_formats |-> result_formats, cut |-> cut,
                    called |-> FALSE, info |-> <<>>]

ParseBind ==
    /\ ~bind.called
    /\ bind' = [bind EXCEPT !.called = TRUE, !.info = parse_bind_message(BindData(bind))]
    /\ UNCHANGED <<sessionVars, acceptVars, callVars, decodeVars, padVars, inspectVars,
                   lockVars>>

NextBind == ParseBind

SpecBind == InitBind /\ [][NextBind]_vars

(***************************************************************************)
(* pg-client-inspect: one run of run() against a server that sends any     *)
(* messages, at most MaxReplies of them, and a stream whose reads and      *)
(* writes may fail.  `trace` records what crossed the stream and the       *)
(* printing of the report.                                                 *)
(***************************************************************************)
Sent(m) == [dir |-> "send", msg |-> m, loop |-> "none", body |-> 0]
GotBody(m, loop, body) == [dir |-> "recv", msg |-> m, loop |-> loop, body |-> body]
Got(m, loop) == GotBody(m, loop, 0)
Printed == [dir |-> "print", msg |-> "report", loop |-> "none", body |-> 0]

\* the buffer run_extended_query writes with one write_all
ExtendedQuery == <<"Parse", "Bind", "Describe", "Execute", "Sync">>

\* backend messages; "malformed ..." is a body whose fields or values fail to parse
AuthMessages ==
    {"AuthenticationOk", "AuthenticationCleartextPassword", "AuthenticationMd5Password",
     "AuthenticationSasl", "AuthenticationSaslContinue", "AuthenticationSaslFinal",
     "ParameterStatus", "BackendKeyData", "ReadyForQuery", "ErrorResponse", "NoticeResponse"}
QueryMessages ==
    {"ParseComplete", "BindComplete", "RowDescription", "DataRow", "CommandComplete",
     "ReadyForQuery", "EmptyQueryResponse", "ParameterDescription", "NoData", "ErrorResponse",
     "NoticeResponse", "NotificationResponse", "AuthenticationOk", "malformed RowDescription",
     "malformed DataRow", "malformed ParameterDescription"}

\* a loop of consume_auth_responses that leaves at AuthenticationOk
consume_auth_responses_ok_ends(message, has_password) ==
    CASE message \in {"AuthenticationOk", "ReadyForQuery"} -> "break"
      [] message \in {"AuthenticationCleartextPassword", "AuthenticationMd5Password"} ->
            IF has_password THEN "send_password" ELSE "fail"
      [] message \in {"AuthenticationSasl", "AuthenticationSaslContinue",
                      "AuthenticationSaslFinal", "ErrorResponse"} -> "fail"
      [] OTHER -> "continue"

\* a loop of consume_auth_responses that answers a SASL request with the password
consume_auth_responses_sasl_password(message, has_password) ==
    CASE message = "AuthenticationOk" -> "continue"
      [] message \in {"AuthenticationCleartextPassword", "AuthenticationMd5Password",
                      "AuthenticationSasl"} ->
            IF has_password THEN "send_password" ELSE "fail"
      [] message \in {"AuthenticationSaslContinue", "AuthenticationSaslFinal",
                      "ErrorResponse"} -> "fail"
      [] message = "ReadyForQuery" -> "break"
      [] OTHER -> "continue"

\* one iteration of the loop of consume_auth_responses on `message`
consume_auth_responses(message, has_password) ==
    CASE message = "AuthenticationOk" -> "continue"
      [] message \in {"AuthenticationCleartextPassword", "AuthenticationMd5Password"} ->
            IF has_password THEN "send_password" ELSE "fail"
      [] message \in {"AuthenticationSasl", "AuthenticationSaslContinue",
                      "AuthenticationSaslFinal"} -> "fail"
      [] message \in {"ParameterStatus", "BackendKeyData"} -> "continue"
      [] message = "ReadyForQuery" -> "break"
      [] message = "ErrorResponse" -> "fail"
      [] OTHER -> "continue"

\* one iteration of the response loop of run_extended_query on `message`
run_extended_query(message) ==
    CASE message = "ReadyForQuery" -> "break"
      [] message \in {"ErrorResponse", "malformed RowDescription", "malformed DataRow",
                      "malformed ParameterDescription"} -> "fail"
      [] OTHER -> "continue"

\* the bodies a message comes with: two different field lists, rows and tags
Bodies(message) ==
    IF message \in {"RowDescription", "DataRow", "CommandComplete"} THEN 1..2 ELSE {0}

\* a response loop that keeps the fields of the first RowDescription
run_extended_query_report_first_fields(r, message, body) ==
    CASE message = "ParseComplete" -> [r EXCEPT !.parse_complete = TRUE]
      [] message = "BindComplete" -> [r EXCEPT !.bind_complete = TRUE]
      [] message = "RowDescription" -> IF r.fields = 0 THEN [r EXCEPT !.fields = body] ELSE r
      [] message = "DataRow" -> [r EXCEPT !.rows = Append(@, body)]
      [] message = "CommandComplete" -> [r EXCEPT !.command_tag = <<body>>]
      [] OTHER -> r

\* what one iteration of the response loop of run_extended_query records in `report`
run_extended_query_report(r, message, body) ==
    CASE message = "ParseComplete" -> [r EXCEPT !.parse_complete = TRUE]
      [] message = "BindComplete" -> [r EXCEPT !.bind_complete = TRUE]
      [] message = "RowDescription" -> [r EXCEPT !.fields = body]
      [] message = "DataRow" -> [r EXCEPT !.rows = Append(@, body)]
      [] message = "CommandComplete" -> [r EXCEPT !.command_tag = <<body>>]
      [] OTHER -> r

Replies == Cardinality({i \in DOMAIN trace : trace[i].dir = "recv"})

InitInspect ==
    /\ NoSession
    /\ OneConnection
    /\ NoCalls
    /\ NoDecoder
    /\ NoPad
    /\ NoBind
    /\ NoLocks
    /\ client_pc = "connect"
    /\ password \in BOOLEAN
    /\ trace = <<>>
    /\ exit_code = <<>>
    /\ report = QueryReportDefault

\* `?` on an Err: run returns it and main calls exit(1)
Fails ==
    /\ client_pc' = "exited"
    /\ exit_code' = <<1>>

\* Connection::connect
Connect ==
    /\ client_pc = "connect"
    /\ \/ client_pc' = "startup" /\ UNCHANGED exit_code
       \/ Fails
    /\ UNCHANGED <<sessionVars, acceptVars, callVars, decodeVars, padVars, bind, lockVars, password, report,
                   trace>>

\* startup: write_all of the StartupMessage
SendStartup ==
    /\ client_pc = "startup"
    /\ \/ /\ trace' = Append(trace, Sent("StartupMessage"))
          /\ client_pc' = "auth"
          /\ UNCHANGED exit_code
       \/ Fails /\ UNCHANGED trace
    /\ UNCHANGED <<sessionVars, acceptVars, callVars, decodeVars, padVars, bind, lockVars, password, report>>

\* read_message returns Err: a read error, a timeout, a closed connection or bytes that
\* are no backend message
ReadFails ==
    /\ client_pc \in {"auth", "query"}
    /\ Fails
    /\ UNCHANGED <<sessionVars, acceptVars, callVars, decodeVars, padVars, bind, lockVars, password, report,
                   trace>>

\* consume_auth_responses: read_message returns `message`
AuthReceive(message) ==
    LET arm == consume_auth_responses(message, password)
    IN  /\ client_pc = "auth"
        /\ Replies < MaxReplies
        /\ trace' = Append(trace, Got(message, "startup"))
        /\ \/ arm = "continue" /\ UNCHANGED <<client_pc, exit_code>>
           \/ arm = "send_password" /\ client_pc' = "password" /\ UNCHANGED exit_code
           \/ arm = "break" /\ client_pc' = "extended" /\ UNCHANGED exit_code
           \/ arm = "fail" /\ Fails
        /\ UNCHANGED <<sessionVars, acceptVars, callVars, decodeVars, padVars, bind,
                       lockVars, password, report>>

\* send_password
SendPassword ==
    /\ client_pc = "password"
    /\ \/ /\ trace' = Append(trace, Sent("PasswordMessage"))
          /\ client_pc' = "auth"
          /\ UNCHANGED exit_code
       \/ Fails /\ UNCHANGED trace
    /\ UNCHANGED <<sessionVars, acceptVars, callVars, decodeVars, padVars, bind, lockVars, password, report>>

\* run_extended_query: write_all of Parse, Bind, Describe, Execute, Sync; when it fails
\* the messages before the failure may have left
SendExtendedQuery ==
    /\ client_pc = "extended"
    /\ \/ /\ trace' = trace \o [i \in 1..Len(ExtendedQuery) |-> Sent(ExtendedQuery[i])]
          /\ client_pc' = "query"
          /\ UNCHANGED exit_code
       \/ /\ \E n \in 0..(Len(ExtendedQuery) - 1) :
                trace' = trace \o [i \in 1..n |-> Sent(ExtendedQuery[i])]
          /\ Fails
    /\ UNCHANGED <<sessionVars, acceptVars, callVars, decodeVars, padVars, bind, lockVars, password, report>>

\* run_extended_query: read_message returns `message`
QueryReceive(message) ==
    LET arm == run_extended_query(message)
    IN  /\ client_pc = "query"
        /\ Replies < MaxReplies
        /\ \E body \in Bodies(message) :
              /\ trace' = Append(trace, GotBody(message, "query", body))
              /\ report' = run_extended_query_report(report, message, body)
        /\ \/ arm = "continue" /\ UNCHANGED <<client_pc, exit_code>>
           \/ arm = "break" /\ client_pc' = "report" /\ UNCHANGED exit_code
           \/ arm = "fail" /\ Fails
        /\ UNCHANGED <<sessionVars, acceptVars, callVars, decodeVars, padVars, bind,
                       lockVars, password>>

\* run: report.print()
PrintReport ==
    /\ client_pc = "report"
    /\ trace' = Append(trace, Printed)
    /\ client_pc' = "terminate"
    /\ UNCHANGED <<sessionVars, acceptVars, callVars, decodeVars, padVars, bind, lockVars, password, report,
                   exit_code>>

\* terminate, then run returns Ok(()) and main returns
Terminate ==
    /\ client_pc = "terminate"
    /\ \/ /\ trace' = Append(trace, Sent("Terminate"))
          /\ client_pc' = "exited"
          /\ exit_code' = <<0>>
       \/ Fails /\ UNCHANGED trace
    /\ UNCHANGED <<sessionVars, acceptVars, callVars, decodeVars, padVars, bind, lockVars, password, report>>

NextInspect ==
    \/ Connect
    \/ SendStartup
    \/ ReadFails
    \/ \E message \in AuthMessages : AuthReceive(message)
    \/ SendPassword
    \/ SendExtendedQuery
    \/ \E message \in QueryMessages : QueryReceive(message)
    \/ PrintReport
    \/ Terminate

SpecInspect == InitInspect /\ [][NextInspect]_vars

(***************************************************************************)
(* The two pumps and the two mutexes.  A pump awaits its socket read, then *)
(* parse_message makes the calls of the frame it read, one after another,  *)
(* each locking one mutex for the length of the call; then the pump awaits *)
(* its socket write and the next read.  Client frames: Query and Execute;  *)
(* server frames: RowDescription, DataRow and CommandComplete.             *)
(***************************************************************************)
FormatterCalls == {"set_row_description", "print_data_row", "finish_result_set"}
MutexOf(c) == IF c \in FormatterCalls THEN "formatter" ELSE "timing"

\* the locking calls of one frame's arm, in program order
FrameCalls(direction, msg_type, table_mode) ==
    IF direction = "ClientToServer"
    THEN CASE msg_type = 81 -> <<"mark_simple_query">>
           [] msg_type = 69 -> <<"mark_execute">>
           [] OTHER -> <<>>
    ELSE CASE msg_type = 84 -> IF table_mode THEN <<"set_row_description">> ELSE <<>>
           [] msg_type = 68 -> IF table_mode THEN <<"print_data_row">> ELSE <<>>
           [] msg_type = 67 -> (IF table_mode THEN <<"finish_result_set">> ELSE <<>>)
                                   \o <<"finish_simple_query", "finish_execute">>
           [] OTHER -> <<>>

\* a guard that lives until the frame's arm returns
drop_guard_at_return(m, rest) == IF rest = <<>> THEN "free" ELSE m

\* the MutexGuard is dropped at the end of the call: the mutex after it
drop_guard(m, rest) == "free"

LockFrames == [ClientToServer |-> {81, 69, 83}, ServerToClient |-> {84, 68, 67, 90}]

InitLocks ==
    /\ NoSession
    /\ OneConnection
    /\ NoCalls
    /\ NoPad
    /\ NoBind
    /\ NoInspect
    /\ \E table_mode \in BOOLEAN : table = TableStateNew(table_mode)
    /\ lines = <<>>
    /\ last = NoFrame
    /\ errored = TimingStateDefault
    /\ formatter_mutex = "free"
    /\ handler = [p \in Dirs |-> Awaiting]

\* read_buf(...).await returns a frame and parse_message reaches its arm
Read(p, msg_type) ==
    /\ handler[p].pc = "await"
    /\ (p = C2U /\ msg_type \in {81, 69}) => clock < MaxMarks
    /\ handler' = [handler EXCEPT ![p] = [pc |-> "decoding",
                                           todo |-> FrameCalls(p, msg_type, table.table_mode)]]
    /\ UNCHANGED <<connectionVars, acceptVars, padVars, bind, inspectVars, timings, clock,
                   callVars, decodeVars, formatter_mutex>>

\* lock().unwrap() of the next call
Lock(p) ==
    /\ handler[p].pc = "decoding"
    /\ handler[p].todo # <<>>
    /\ IF MutexOf(Head(handler[p].todo)) = "timing"
       THEN /\ lock(mutex)
            /\ mutex' = p
            /\ UNCHANGED formatter_mutex
       ELSE /\ lock(formatter_mutex)
            /\ formatter_mutex' = p
            /\ UNCHANGED mutex
    /\ handler' = [handler EXCEPT ![p].pc = "holding"]
    /\ UNCHANGED <<connectionVars, acceptVars, padVars, bind, inspectVars, timings, clock,
                   pending, call, lastMark, finished, decodeVars>>

\* the body of the call under its guard, and the drop of the guard
Run(p) ==
    LET c == Head(handler[p].todo)
        rest == Tail(handler[p].todo)
        t == [table |-> table, lines |-> <<>>]
    IN  /\ handler[p].pc = "holding"
        /\ timings' = CASE c = "mark_simple_query" -> mark_simple_query(timings, clock + 1)
                         [] c = "mark_execute" -> mark_execute(timings, clock + 1)
                         [] c = "finish_simple_query" -> finish_simple_query(timings).state
                         [] c = "finish_execute" -> finish_execute(timings).state
                         [] OTHER -> timings
        /\ clock' = IF c \in {"mark_simple_query", "mark_execute"} THEN clock + 1 ELSE clock
        /\ table' = CASE c = "set_row_description" -> set_row_description(t, 1).table
                       [] c = "print_data_row" -> print_data_row(t, 1).table
                       [] c = "finish_result_set" -> finish_result_set(t).table
                       [] OTHER -> table
        /\ IF MutexOf(c) = "timing"
           THEN mutex' = drop_guard(mutex, rest) /\ UNCHANGED formatter_mutex
           ELSE formatter_mutex' = drop_guard(formatter_mutex, rest) /\ UNCHANGED mutex
        \* finish_execute is the else-branch of `if let Some(..) = finish_simple_query()`
        /\ handler' = [handler EXCEPT ![p] =
                          [pc |-> "decoding",
                           todo |-> IF c = "finish_simple_query"
                                       /\ finish_simple_query(timings).took # None
                                    THEN <<>> ELSE rest]]
        /\ UNCHANGED <<connectionVars, acceptVars, padVars, bind, inspectVars, pending, call,
                       lastMark, finished, lines, last, errored>>

\* parse_message returned: write_all(...).await, then the next read
Write(p) ==
    /\ handler[p].pc = "decoding"
    /\ handler[p].todo = <<>>
    /\ handler' = [handler EXCEPT ![p] = Awaiting]
    /\ UNCHANGED <<connectionVars, acceptVars, padVars, bind, inspectVars, timings, clock,
                   callVars, decodeVars, formatter_mutex>>

NextLocks ==
    \E p \in Dirs :
        \/ \E msg_type \in LockFrames[p] : Read(p, msg_type)
        \/ Lock(p)
        \/ Run(p)
        \/ Write(p)

SpecLocks == InitLocks /\ [][NextLocks]_vars

\* a step of connection c's tasks
ConnectionStep(c) ==
    \/ HandlerFails(c)
    \/ HandlerLeaves(c)
    \/ SpawnPumps(c)
    \/ \E d \in Dirs : PumpStops(c, d)
    \/ HandlerReturns(c)

NextAccept ==
    \/ Accept
    \/ AcceptFails
    \/ \E c \in Connections : HandlerFails(c)
    \/ \E c \in Connections : HandlerLeaves(c)
    \/ \E c \in Connections : SpawnPumps(c)
    \/ \E c \in Connections, d \in Dirs : PumpStops(c, d)
    \/ \E c \in Connections : HandlerReturns(c)

SpecAccept == InitAccept /\ [][NextAccept]_vars

(***************************************************************************)
(* Notions used by the properties                                          *)
(***************************************************************************)
Spawned(d) == pump[d].pc # "idle"

\* bytes a direction has taken from its source peer and owes to the other peer
Received(d) ==
    IF d = C2U
    THEN startup_buf \o (IF Spawned(d) THEN Slice(clientIn, typedStart, pos[d]) ELSE <<>>)
    ELSE Slice(upstreamIn, 0, pos[d])

\* the other direction
Opposite(d) == IF d = C2U THEN U2C ELSE C2U

\* tokio::io::split and into_split: the client stream is dropped when both of its
\* halves are, the upstream socket's write side is shut down when upstream_write is
\* dropped and the socket is closed when both halves are
ClientSocketClosed == \A d \in Dirs : Finished(d)
UpstreamSocketClosed == \A d \in Dirs : Finished(d)

\* connection c met an error or a panic
SessionFailed(c) ==
    \/ conn[c].handler = "err"
    \/ \E d \in Dirs : conn[c].pump[d] \in {"io_error", "panicked"}

\* every task of connection c has ended, so every half of its sockets is dropped
TornDown(c) ==
    /\ conn[c].handler \in {"ok", "err", "cancelled"}
    /\ \A d \in Dirs : conn[c].pump[d] # "running"

\* the finish_* calls that have read their slot: those inside take and those returned
Takes == {call[p] : p \in {q \in Dirs : call[q].pc = "taken"}} \cup {finished[i] : i \in DOMAIN finished}

\* no finish_<k> is between the two halves of its take
Settled(k) == \A p \in Dirs : ~(call[p].pc = "taken" /\ call[p].kind = k)

\* positions in the log of the lines of one kind
LinesOf(kind) == {i \in DOMAIN lines : lines[i].kind = kind}

\* the header block is logged at most once, whole, and before every data row
HeaderOnceBeforeRows ==
    /\ Cardinality(LinesOf("top")) <= 1
    /\ \A i \in LinesOf("top") :
          /\ i + 2 <= Len(lines)
          /\ lines[i + 1].kind = "header"
          /\ lines[i + 2].kind = "mid"
    /\ Cardinality(LinesOf("header")) = Cardinality(LinesOf("top"))
    /\ Cardinality(LinesOf("mid")) = Cardinality(LinesOf("top"))
    /\ \A j \in LinesOf("row") : \E i \in LinesOf("top") : i + 2 < j
    /\ table.current_formatter[1].header_printed <=> LinesOf("top") # {}

\* the protocol's SSLRequest: length 8 and code 80877103
IsProtocolSslRequest(b) == Len(b) >= 8 /\ U32(b, 1) = 8 /\ U32(b, 5) = SslRequestCode

\* offset in clientIn of the StartupMessage, and of the first byte after it
StartupAt == IF IsProtocolSslRequest(clientIn) THEN 8 ELSE 0
StartupEnd == StartupAt + U32(clientIn, StartupAt + 1)

\* the part of a direction's stream that the pump reads, and its offset
TypedFrom(d) == IF d = C2U THEN typedStart ELSE 0
TypedStream(d) == Slice(Source(d), TypedFrom(d), Len(Source(d)))

\* the frames of a stream that arrives in one read
OneRead(d) == parse_message(TypedStream(d), TypedFrom(d), d, TimingStateDefault, 0)

RECURSIVE FramesSize(_)
FramesSize(fs) == IF fs = <<>> THEN 0 ELSE 1 + Head(fs)[3] + FramesSize(Tail(fs))

\* a stream made of whole frames with length fields of at least 4
ValidTypedStream(d) ==
    /\ ~OneRead(d).panicked
    /\ FramesSize(OneRead(d).frames) = Len(TypedStream(d))

(***************************************************************************)
(* C1: in each direction the bytes written to the destination are, in      *)
(* every state, a prefix of the bytes read from the source (client to      *)
(* upstream: the startup buffer followed by what the pump read), and at    *)
(* the head of the pump loop nothing that was read is missing.             *)
(***************************************************************************)
C1_ForwardedIsPrefixOfRead ==
    \A d \in Dirs :
        /\ IsPrefix(out[d], Received(d))
        /\ pump[d].pc = "read" => out[d] = Received(d)

\* both pumps have forwarded a chunk that stops inside a frame
C1_Witness ==
    /\ pump[C2U].pc = "read" /\ pump[U2C].pc = "read"
    /\ Len(out[C2U]) > Len(startup_buf) /\ pos[C2U] < Len(clientIn)
    /\ out[U2C] # <<>> /\ pos[U2C] < Len(upstreamIn)
    /\ decoded[C2U] = <<>> /\ decoded[U2C] = <<>>

(***************************************************************************)
(* C2: parse_message never panics, whatever the chunk: no pump task ends   *)
(* by a panic.                                                             *)
(***************************************************************************)
C2_ParseNeverPanics == \A d \in Dirs : pump[d].pc # "panicked"

(***************************************************************************)
(* C3: once a valid stream of typed frames has been read, in whatever      *)
(* chunks, the frames decoded are those decoded when it arrives in one     *)
(* read.                                                                   *)
(***************************************************************************)
C3_StreamingEquivalence ==
    \A d \in Dirs :
        (Spawned(d) /\ pos[d] = Len(Source(d)) /\ ValidTypedStream(d))
            => decoded[d] = OneRead(d).frames

(***************************************************************************)
(* C4: every chunk a pump has read is written to the opposite peer: a      *)
(* pump that is not inside a write and has met no I/O error has forwarded  *)
(* every byte it read, whatever the chunk held.                            *)
(***************************************************************************)
C4_ChunkAlwaysForwarded ==
    \A d \in Dirs : pump[d].pc \in {"read", "panicked"} => out[d] = Received(d)

(***************************************************************************)
(* C5: typed framing of the client stream begins at the first byte after   *)
(* the StartupMessage, as long as its length prefix declares, and the      *)
(* startup buffer logged and forwarded is that whole message.              *)
(***************************************************************************)
C5_TypedModeAfterWholeStartup ==
    (Spawned(C2U) /\ Len(clientIn) >= StartupAt + 4 /\ Len(clientIn) >= StartupEnd)
        => /\ typedStart = StartupEnd
           /\ startup_buf = Slice(clientIn, StartupAt, StartupEnd)

(***************************************************************************)
(* C6: after an SSLRequest exactly one answer byte is written to the       *)
(* client before anything further is read, 'S' with a certificate (then    *)
(* the stream is TLS) and 'N' without (the stream stays plain); nothing of *)
(* the 8 SSLRequest bytes reaches the upstream.                            *)
(***************************************************************************)
C6_SslAnswerThenStartup ==
    sslRequested =>
        /\ answer \in {<<>>, <<IF ssl_config THEN 83 ELSE 78>>}
        /\ (pos[C2U] > 8 \/ pc \in {"handshake", "ssl_read", "connect", "run_proxy", "select"})
              => Len(answer) = 1
        /\ IsPrefix(out[C2U], Slice(clientIn, 8, pos[C2U]))
        /\ tls => ssl_config
        /\ (ssl_config /\ pc \in {"ssl_read", "connect", "run_proxy", "select"}) => tls
        /\ (ssl_config /\ Spawned(C2U)) => tls

\* SSL was accepted and the startup message read over TLS has reached the upstream
C6_Witness ==
    /\ sslRequested /\ answer = <<83>> /\ tls
    /\ Spawned(C2U) /\ out[C2U] # <<>>

(***************************************************************************)
(* C7: the first 8 bytes are treated as an SSLRequest if and only if the   *)
(* length field is 8 and the code is 80877103.                             *)
(***************************************************************************)
C7_SslRequestIffLen8AndCode ==
    (pc # "init" /\ pos[C2U] >= 8)
        => (sslRequested <=> IsProtocolSslRequest(clientIn))

(***************************************************************************)
(* C8: after a CancelRequest only those 8 bytes are forwarded and no pump  *)
(* is run: nothing is decoded on that connection.                          *)
(***************************************************************************)
C8_CancelForwardedWithoutFraming ==
    (Len(clientIn) >= 8 /\ Slice(clientIn, 0, 8) = CancelRequest)
        => /\ \A d \in Dirs : ~Spawned(d) /\ decoded[d] = <<>>
           /\ IsPrefix(out[C2U], CancelRequest)

(***************************************************************************)
(* C9: when the client closes before its first 8 bytes, or after the       *)
(* answer byte and before any byte of the real startup message, the        *)
(* handler opens no upstream connection, forwards nothing and returns Ok.  *)
(***************************************************************************)
C9_ClosedOutcome ==
    (Len(clientIn) < 8 \/ (Len(clientIn) = 8 /\ sslRequested /\ answer # <<>>))
        => /\ ~upstreamOpen
           /\ pc \notin {"connect", "run_proxy", "select"}
           /\ out[C2U] = <<>>
           /\ \A d \in Dirs : ~Spawned(d)

(***************************************************************************)
(* C10: run_proxy has returned only when both pumps have exited.           *)
(***************************************************************************)
C10_ReturnsAfterBothPumps ==
    (pc = "done" /\ \E d \in Dirs : Spawned(d)) => \A d \in Dirs : Finished(d)

(***************************************************************************)
(* C13: within one direction frames are dispatched to the decoder in       *)
(* arrival order and forwarded in arrival order: the frames decoded so far *)
(* lie one after the other in the direction's byte stream, inside the      *)
(* bytes read, and the bytes written are the stream's bytes in stream      *)
(* order, so no frame's bytes are written before an earlier frame's.       *)
(***************************************************************************)
C13_FramesInArrivalOrder ==
    \A d \in Dirs :
        /\ \A i \in 1..Len(decoded[d]) :
              /\ decoded[d][i][1] >= TypedFrom(d)
              /\ decoded[d][i][1] + 1 + decoded[d][i][3] <= pos[d]
              /\ i > 1 => decoded[d][i - 1][1] + 1 + decoded[d][i - 1][3] <= decoded[d][i][1]
        /\ IsPrefix(out[d], Received(d))

\* two client frames were decoded and their bytes have reached the upstream
C13_Witness ==
    /\ Len(decoded[C2U]) >= 2
    /\ pump[C2U].pc = "read"
    /\ out[C2U] = Received(C2U)

(***************************************************************************)
(* C11: once one pump of a session has stopped, the other pump stops too   *)
(* and both sockets are closed, also when the remaining peer stays         *)
(* connected and idle: in no state has one pump stopped while the other    *)
(* is left neither stopped nor able to take a step.                        *)
(***************************************************************************)
C11_OtherPumpStopsToo ==
    \A d \in Dirs :
        Finished(d) =>
            \/ Finished(Opposite(d)) /\ ClientSocketClosed /\ UpstreamSocketClosed
            \/ ENABLED (PumpRead(Opposite(d)) \/ PumpWrite(Opposite(d)))

C12_SessionFailureConfined ==
    \A c \in Connections :
        SessionFailed(c) =>
            /\ conn[c].handler = "err" => conn[c].logged
            /\ TornDown(c) \/ ENABLED ConnectionStep(c)
            /\ (listening = "accepting" /\ \E b \in Connections : conn[b].handler = "none")
                  => ENABLED Accept

(***************************************************************************)
(* C15: take-once: for every kind, finish returns a duration if and only   *)
(* if the kind was marked since the last finish of that kind, and it       *)
(* leaves the slot empty, so that of two finishes after one mark exactly   *)
(* one obtains the duration, also when two pumps issue them concurrently.  *)
(***************************************************************************)
C15_TakeOnce ==
    /\ \A r \in Takes : r.some <=> r.marks > 0
    /\ \A k \in Kinds : Settled(k) => (timings[k] # None <=> pending[k] > 0)

\* after one mark, two finishes of that kind issued by different pumps while the
\* other was still in its call: the first obtained the duration, the second did not
C15_Witness ==
    /\ Len(finished) = 2
    /\ finished[1].kind = finished[2].kind
    /\ finished[1].by # finished[2].by
    /\ finished[1].marks = 1 /\ finished[1].some
    /\ ~finished[2].some

(***************************************************************************)
(* C16: mark overwrites: a kind has one slot, so after two marks of a kind *)
(* with no completion between them the first completion measures from the *)
(* most recent mark and empties the slot, and the second completion of     *)
(* that kind obtains no duration.                                          *)
(***************************************************************************)
C16_MarkOverwrites ==
    /\ \A r \in Takes : r.marks > 0 => r.some /\ r.fromLatest
    /\ \A r \in Takes : r.marks = 0 => ~r.some
    /\ \A k \in Kinds : (Settled(k) /\ pending[k] > 0) => timings[k] = lastMark[k]

\* two marks of one kind, then two completions: the first measured from the second
\* mark, the second found nothing
C16_Witness ==
    /\ Len(finished) = 2
    /\ finished[1].kind = finished[2].kind
    /\ finished[1].marks = 2 /\ finished[1].some /\ finished[1].fromLatest
    /\ finished[2].marks = 0 /\ ~finished[2].some

(***************************************************************************)
(* C17: finish rules: CommandComplete consumes the SimpleQuery slot when   *)
(* it is marked, otherwise the Execute slot when that is marked, never     *)
(* both; ParseComplete consumes only the Parse slot and BindComplete only  *)
(* the Bind slot; with the matching slot empty the completion is logged    *)
(* without a duration and no slot changes.                                 *)
(***************************************************************************)
C17_FinishRules ==
    LET b == last.timings
        none == [what |-> "none", at |-> None]
    IN  last.direction = U2C =>
          /\ last.msg_type = 67 =>
                /\ \E i \in DOMAIN lines : lines[i].kind = "CommandComplete"
                /\ IF b.simple_query # None
                   THEN /\ timings = [b EXCEPT !.simple_query = None]
                        /\ last.took = [what |-> "query", at |-> b.simple_query]
                   ELSE IF b.execute # None
                   THEN /\ timings = [b EXCEPT !.execute = None]
                        /\ last.took = [what |-> "execute", at |-> b.execute]
                   ELSE timings = b /\ last.took = none
          /\ last.msg_type = 49 =>
                /\ lines # <<>>
                /\ IF b.parse # None
                   THEN /\ timings = [b EXCEPT !.parse = None]
                        /\ last.took = [what |-> "parse", at |-> b.parse]
                   ELSE timings = b /\ last.took = none
          /\ last.msg_type = 50 =>
                /\ lines # <<>>
                /\ IF b.bind # None
                   THEN /\ timings = [b EXCEPT !.bind = None]
                        /\ last.took = [what |-> "bind", at |-> b.bind]
                   ELSE timings = b /\ last.took = none

\* a CommandComplete arrived with both the SimpleQuery and the Execute slot marked:
\* it took the SimpleQuery mark and the Execute mark is still there
C17_Witness ==
    /\ last.direction = U2C /\ last.msg_type = 67
    /\ last.timings.simple_query # None /\ last.timings.execute # None
    /\ last.took.what = "query"
    /\ timings.simple_query = None /\ timings.execute = last.timings.execute

(***************************************************************************)
(* C18: mark rules: a client frame of type Q, P, B or E stores a new       *)
(* instant in the SimpleQuery, Parse, Bind or Execute slot and leaves the  *)
(* other three slots as they were; every other client message type leaves  *)
(* all four slots as they were; no client message empties a slot.          *)
(***************************************************************************)
C18_MarkRules ==
    LET b == last.timings
        slot == CASE last.msg_type = 81 -> "simple_query"
                  [] last.msg_type = 80 -> "parse"
                  [] last.msg_type = 66 -> "bind"
                  [] last.msg_type = 69 -> "execute"
                  [] OTHER -> "none"
    IN  last.direction = C2U =>
          /\ slot # "none" => timings[slot] = clock /\ clock # None
          /\ \A k \in Kinds \ {slot} : timings[k] = b[k]
          /\ \A k \in Kinds : b[k] # None => timings[k] # None

\* an Execute frame arrived with the SimpleQuery slot marked: Execute is marked anew
\* and the SimpleQuery mark is still there
C18_Witness ==
    /\ last.direction = C2U /\ last.msg_type = 69
    /\ last.timings.simple_query # None
    /\ timings.execute = clock
    /\ timings.simple_query = last.timings.simple_query

(***************************************************************************)
(* C19: table lifecycle: in table mode a RowDescription creates a          *)
(* formatter, and each of CommandComplete, EmptyQueryResponse and          *)
(* ErrorResponse logs the footer (when the header was logged) and clears   *)
(* the formatter, so no formatter of an ended result set is current        *)
(* afterwards.                                                             *)
(***************************************************************************)
C19_TableLifecycle ==
    (last.direction = U2C /\ last.table.table_mode) =>
        /\ (last.msg_type = 84 /\ last.parsed > 0)
              => table.current_formatter = <<TableFormatterNew(last.parsed)>>
        /\ last.msg_type \in {67, 73, 69} =>
              /\ table.current_formatter = <<>>
              /\ (last.table.current_formatter # <<>>
                    /\ last.table.current_formatter[1].header_printed)
                    => \E i \in DOMAIN lines : lines[i].kind = "bottom"

(***************************************************************************)
(* C20: for one TableFormatter, header_printed goes from false to true at  *)
(* most once and never back: over any sequence of print_header, print_row  *)
(* and print_footer calls the header block (top border, header row, mid    *)
(* border) is logged at most once, and before the first data row.          *)
(***************************************************************************)
C20_HeaderAtMostOnce ==
    [][/\ table.current_formatter[1].header_printed
            => table'.current_formatter[1].header_printed
       /\ HeaderOnceBeforeRows']_vars

\* a formatter whose first call was print_row: the header block, the row, then a
\* footer and another row with no second header block
C20_Witness ==
    /\ Len(lines) >= 6
    /\ lines[1].kind = "top" /\ lines[4].kind = "row"
    /\ lines[5].kind = "bottom" /\ lines[6].kind = "row"
    /\ table.current_formatter[1].header_printed

(***************************************************************************)
(* C21: width invariance: a TableFormatter built from n fields has exactly *)
(* n column widths, all 15, at creation and after any sequence of          *)
(* print_header, print_row and print_footer calls.                         *)
(***************************************************************************)
C21_WidthsFixed ==
    LET f == table.current_formatter[1]
    IN  /\ Len(f.column_widths) = f.fields
        /\ \A i \in 1..f.fields : f.column_widths[i] = 15

\* rows with fewer and with more values than columns were printed, then a footer
C21_Witness ==
    /\ \E i \in LinesOf("row") : lines[i].cells < table.current_formatter[1].fields
    /\ \E i \in LinesOf("row") : lines[i].cells > table.current_formatter[1].fields
    /\ LinesOf("bottom") # {}

(***************************************************************************)
(* C22: pad_or_truncate(s, w): when s has at most w characters the result  *)
(* is s followed by spaces up to w characters; otherwise, when w >= 3, it  *)
(* is the first w-3 characters of s followed by "...", and when w < 3 the  *)
(* first w characters of s; hence for every s and every w >= 3 the result  *)
(* has exactly w characters.                                               *)
(***************************************************************************)
C22_PadOrTruncate ==
    pad_out # NotCalled =>
        LET s == pad_s
            w == pad_width
            r == pad_out
        IN  /\ Len(s) <= w =>
                /\ Len(r) = w
                /\ \A i \in 1..Len(s) : r[i] = s[i]
                /\ \A i \in (Len(s) + 1)..w : r[i] = " "
            /\ (Len(s) > w /\ w >= 3) =>
                /\ Len(r) = (w - 3) + 3
                /\ \A i \in 1..(w - 3) : r[i] = s[i]
                /\ \A i \in (w - 2)..w : r[i] = "."
            /\ (Len(s) > w /\ w < 3) =>
                /\ Len(r) = w
                /\ \A i \in 1..w : r[i] = s[i]
            /\ w >= 3 => Len(r) = w

\* a string longer than its width, cut with room for some of its characters
C22_Witness ==
    /\ pad_out # NotCalled
    /\ Len(pad_s) > pad_width
    /\ pad_width > 3

TableKinds == {"top", "header", "mid", "row", "bottom"}

RendersCodes(r, codes) ==
    LET Named(name, code) == /\ code = 0 => name = "text"
                             /\ code = 1 => name = "binary"
    IN  /\ Len(codes) = 0 => r = [all |-> TRUE, formats |-> <<"text">>]
        /\ Len(codes) = 1 =>
              /\ r.all
              /\ Len(r.formats) = 1
              /\ Named(r.formats[1], codes[1])
        /\ Len(codes) >= 2 =>
              /\ ~r.all
              /\ Len(r.formats) = Len(codes)
              /\ \A i \in 1..Len(codes) : Named(r.formats[i], codes[i])

(***************************************************************************)
(* C24: Bind format-code rendering: for both the parameter formats and the *)
(* result formats of a Bind message, a count of 0 renders "text (all)", a  *)
(* count of 1 renders "<text|binary> (all)" for that single code, and a    *)
(* count of 2 or more renders the per-column list in message order.        *)
(***************************************************************************)
C24_BindFormatCodes ==
    (bind.called /\ ~bind.cut) =>
        /\ Len(bind.info) = 1
        /\ RendersCodes(bind.info[1].ParamFormats, bind.param_formats)
        /\ RendersCodes(bind.info[1].ResultFormats, bind.result_formats)

\* one binary parameter format for all, and the result formats [text, binary]
C24_Witness ==
    /\ bind.called /\ bind.info # <<>>
    /\ bind.param_formats = <<1>>
    /\ bind.result_formats = <<0, 1>>
    /\ bind.info[1].ParamFormats = [all |-> TRUE, formats |-> <<"binary">>]
    /\ bind.info[1].ResultFormats = [all |-> FALSE, formats |-> <<"text", "binary">>]

\* the names of the messages the client has sent, in order
IsSentEvent(e) == e.dir = "send"
SentNames ==
    LET sends == SelectSeq(trace, IsSentEvent)
    IN  [i \in 1..Len(sends) |-> sends[i].msg]

\* the fixed order with k PasswordMessages
FixedOrder(k) ==
    <<"StartupMessage">> \o [i \in 1..k |-> "PasswordMessage"] \o ExtendedQuery
        \o <<"Terminate">>

PasswordRequests == {"AuthenticationCleartextPassword", "AuthenticationMd5Password"}
SaslMessages == {"AuthenticationSasl", "AuthenticationSaslContinue", "AuthenticationSaslFinal"}

(***************************************************************************)
(* C25: the diagnostic client sends its messages in one fixed order:       *)
(* StartupMessage, then PasswordMessages only in reply to a cleartext/MD5  *)
(* authentication request, then Parse, Bind, Describe, Execute, Sync (each *)
(* exactly once, in that order), then Terminate; no extended-query message *)
(* is sent before the authentication loop has received ReadyForQuery,      *)
(* which is the only message that ends the loop successfully.              *)
(***************************************************************************)
C25_FixedSendOrder ==
    /\ \E k \in 0..MaxReplies : IsPrefix(SentNames, FixedOrder(k))
    /\ exit_code = <<0>> => \E k \in 0..MaxReplies : SentNames = FixedOrder(k)
    /\ \A i \in DOMAIN trace :
          /\ trace[i] = Sent("PasswordMessage") =>
                /\ i > 1
                /\ trace[i - 1].dir = "recv"
                /\ trace[i - 1].loop = "startup"
                /\ trace[i - 1].msg \in PasswordRequests
          /\ (trace[i].dir = "send" /\ \E n \in DOMAIN ExtendedQuery :
                                          trace[i].msg = ExtendedQuery[n]) =>
                \E j \in 1..(i - 1) : trace[j] = Got("ReadyForQuery", "startup")
          /\ trace[i] = Sent("Parse") =>
                /\ i > 1
                /\ trace[i - 1] = Got("ReadyForQuery", "startup")
          /\ trace[i] = Got("ReadyForQuery", "startup") =>
                \A j \in (i + 1)..Len(trace) : trace[j].loop # "startup"
    /\ client_pc \in {"extended", "query", "report", "terminate"} =>
          \E i \in DOMAIN trace : trace[i] = Got("ReadyForQuery", "startup")

\* a successful run in which a password was asked for and sent
C25_Witness ==
    /\ exit_code = <<0>>
    /\ SentNames = FixedOrder(1)

(***************************************************************************)
(* C26: in the authentication loop, a cleartext or MD5 password request    *)
(* with no password supplied, any SASL authentication message, and an      *)
(* ErrorResponse each make startup fail with an error, after which the     *)
(* client sends no further message and exits nonzero.                      *)
(***************************************************************************)
C26_AuthFailureEndsRun ==
    \A i \in DOMAIN trace :
        (/\ trace[i].dir = "recv"
         /\ trace[i].loop = "startup"
         /\ \/ trace[i].msg \in PasswordRequests /\ ~password
            \/ trace[i].msg \in SaslMessages
            \/ trace[i].msg = "ErrorResponse") =>
            /\ i = Len(trace)
            /\ client_pc = "exited"
            /\ exit_code = <<1>>
            /\ ~ENABLED SendPassword
            /\ ~ENABLED SendExtendedQuery
            /\ ~ENABLED Terminate

\* an MD5 request arrives after other startup traffic and no password was supplied
C26_Witness ==
    /\ ~password
    /\ Len(trace) >= 3
    /\ trace[Len(trace)] = Got("AuthenticationMd5Password", "startup")
    /\ exit_code = <<1>>

(***************************************************************************)
(* C27: after consuming the extended-query responses the diagnostic client *)
(* sends Terminate and then prints the structured report: in every         *)
(* successful run Terminate is sent exactly once, as the last message on   *)
(* the connection, and before the report is printed.                       *)
(***************************************************************************)
C27_TerminateBeforeReport ==
    /\ \A i \in DOMAIN trace :
          trace[i] = Printed => \E j \in 1..(i - 1) : trace[j] = Sent("Terminate")
    /\ exit_code = <<0>> =>
          /\ Cardinality({i \in DOMAIN trace : trace[i] = Sent("Terminate")}) = 1
          /\ SentNames[Len(SentNames)] = "Terminate"

\* the frame dispatched last declares more fields than its body holds
CutShort ==
    \/ /\ last.direction = U2C /\ last.msg_type = 84
       /\ parse_row_description(last.data) < U16(last.data, 1)
    \/ /\ last.direction = U2C /\ last.msg_type = 68
       /\ parse_data_row(last.data) < U16(last.data, 1)
    \/ /\ last.direction = C2U /\ last.msg_type = 66
       /\ parse_bind_message(last.data) = <<>>

(***************************************************************************)
(* C28: a typed frame whose body is shorter than the fields it declares    *)
(* (a Bind, RowDescription or DataRow cut short inside a declared field)   *)
(* is decoded as Unknown and logged as such, rather than as its nominal    *)
(* message kind or with partially parsed fields (and no formatter is made  *)
(* or row printed from it).                                                *)
(***************************************************************************)
C28_CutBodyIsUnknown ==
    CutShort =>
        /\ lines = <<Line("Unknown message type", 0)>>
        /\ table = last.table

(***************************************************************************)
(* C29: decoding dispatches on direction, not only on the type byte: 'D'   *)
(* is Describe from the client and DataRow from the server, 'E' is Execute *)
(* (marks the Execute slot) from the client and ErrorResponse from the     *)
(* server, 'C' is Close from the client and CommandComplete from the       *)
(* server, 'S' is Sync from the client and ParameterStatus from the        *)
(* server; a client frame is never handled by a server-side rule (a client *)
(* Close never consumes a timing slot or ends a result set) and vice       *)
(* versa.                                                                  *)
(***************************************************************************)
C29_DispatchOnDirection ==
    LET kinds == {lines[i].kind : i \in DOMAIN lines}
    IN  /\ last.direction = C2U =>
              /\ last.msg_type = 68 => kinds = {"Describe"}
              /\ last.msg_type = 69 =>
                    /\ kinds = {"Execute"}
                    /\ timings.execute = clock
                    /\ timings.execute # None
              /\ last.msg_type = 67 =>
                    /\ kinds = {"Close"}
                    /\ timings = last.timings
              /\ last.msg_type = 83 => kinds = {"Sync"}
              \* no server rule: no slot is taken, no result set begun or ended
              /\ \A k \in Kinds : last.timings[k] # None => timings[k] # None
              /\ table = last.table
              /\ kinds \cap TableKinds = {}
        /\ last.direction = U2C =>
              /\ last.msg_type = 68 =>
                    kinds \subseteq ({"DataRow", "Value"} \cup TableKinds)
              /\ last.msg_type = 69 =>
                    /\ kinds = {"ErrorResponse"}
                    /\ timings = last.timings
              /\ last.msg_type = 67 =>
                    /\ "CommandComplete" \in kinds
                    /\ last.table.table_mode => table.current_formatter = <<>>
                    /\ (last.timings.simple_query # None \/ last.timings.execute # None)
                          => timings # last.timings
              /\ last.msg_type = 83 => kinds = {"ParameterStatus"}
              \* no client rule: no slot is marked
              /\ \A k \in Kinds : last.timings[k] = None => timings[k] = None

\* a client Close arrives while a SimpleQuery slot is marked and a result set is open
C29_Witness ==
    /\ last.direction = C2U /\ last.msg_type = 67
    /\ timings.simple_query # None
    /\ table.current_formatter # <<>>
    /\ lines = <<Line("Close", 0)>>

\* the mutexes pump p holds
Holds(p) == {m \in {"timing", "formatter"} :
                (m = "timing" /\ mutex = p) \/ (m = "formatter" /\ formatter_mutex = p)}

\* pump p waits for a mutex that pump q holds
Blocked(p, q) ==
    /\ handler[p].pc = "decoding"
    /\ handler[p].todo # <<>>
    /\ MutexOf(Head(handler[p].todo)) \in Holds(q)

(***************************************************************************)
(* C30: the mutexes of ConnectionTiming and TableState are each held only  *)
(* for one mark/finish or one formatter method call: no pump holds either  *)
(* mutex while it is suspended in a socket read or write, a pump never     *)
(* holds both at once, and therefore the two pumps can never deadlock or   *)
(* block each other for longer than one such update.                       *)
(***************************************************************************)
C30_MutexesHeldForOneCall ==
    \A p \in Dirs :
        \* held only inside the one call that locked it
        /\ Holds(p) # {} =>
              /\ handler[p].pc = "holding"
              /\ Holds(p) = {MutexOf(Head(handler[p].todo))}
        /\ handler[p].pc \in {"await", "decoding"} => Holds(p) = {}
        /\ Cardinality(Holds(p)) <= 1
        \* a blocked pump waits for a holder whose call can finish, and is then free
        \* to lock
        /\ \A q \in Dirs \ {p} :
              Blocked(p, q) => /\ ENABLED Run(q)
                               /\ ~Blocked(q, p)
        /\ ENABLED NextLocks

\* the server pump waits for the timing mutex while the client pump holds it, after
\* it has finished a result set under the formatter mutex
C30_Witness ==
    /\ mutex = C2U
    /\ handler[C2U].pc = "holding"
    /\ Blocked(U2C, C2U)
    /\ handler[U2C].todo = <<"finish_simple_query", "finish_execute">>
    /\ table.table_mode

\* the step before ran finish_result_set / print_data_row, called directly or by the
\* arm of a CommandComplete / DataRow
RanFinishResultSet ==
    \/ last.method = "finish_result_set"
    \/ last.direction = U2C /\ last.msg_type = 67 /\ last.table.table_mode
RanPrintDataRow ==
    \/ last.method = "print_data_row"
    \/ last.direction = U2C /\ last.msg_type = 68 /\ last.parsed > 0
HasLine(kind) == \E i \in DOMAIN lines : lines[i].kind = kind

(***************************************************************************)
(* C31: finish_result_set emits the bottom border if and only if the       *)
(* current formatter has emitted its header (so a result set with no data  *)
(* rows produces no table output at all), and in every case leaves no      *)
(* current formatter; DataRows arriving afterwards are not rendered with   *)
(* the old formatter.                                                      *)
(***************************************************************************)
C31_FooterIffHeader ==
    /\ RanFinishResultSet =>
          /\ table.current_formatter = <<>>
          /\ HasLine("bottom") <=> /\ last.table.table_mode
                                    /\ last.table.current_formatter # <<>>
                                    /\ last.table.current_formatter[1].header_printed
          /\ \A i \in DOMAIN lines : lines[i].kind \in {"bottom", "CommandComplete"}
    /\ (RanPrintDataRow /\ last.table.current_formatter = <<>>) =>
          /\ table.current_formatter = <<>>
          /\ \A i \in DOMAIN lines : lines[i].kind \notin TableKinds

\* a result set with rows is finished and gets its bottom border
C31_Witness ==
    /\ last.method = "finish_result_set"
    /\ last.table.current_formatter # <<>>
    /\ last.table.current_formatter[1].header_printed
    /\ lines = <<Line("bottom", last.table.current_formatter[1].fields)>>

RanSetRowDescription ==
    \/ last.method = "set_row_description"
    \/ last.direction = U2C /\ last.msg_type = 84 /\ last.parsed > 0

IsQueryReply(e) == e.dir = "recv" /\ e.loop = "query"
QueryReplies == SelectSeq(trace, IsQueryReply)
IsDataRow(e) == e.msg = "DataRow"
\* the body of the last `message` in a sequence of replies, `none` when there is none
RECURSIVE LastBody(_, _, _)
LastBody(replies, message, none) ==
    IF replies = <<>> THEN none
    ELSE IF replies[Len(replies)].msg = message THEN replies[Len(replies)].body
    ELSE LastBody(SubSeq(replies, 1, Len(replies) - 1), message, none)

(***************************************************************************)
(* C33: run_extended_query reads server messages until the first           *)
(* ReadyForQuery and reads nothing after it; the report it returns has     *)
(* parse_complete / bind_complete true exactly when a ParseComplete /      *)
(* BindComplete was received, one row per DataRow received in arrival      *)
(* order, the fields of the last RowDescription and the tag of the last    *)
(* CommandComplete; an ErrorResponse before ReadyForQuery makes it fail    *)
(* instead of returning a report.                                          *)
(***************************************************************************)
C33_ReportOfReplies ==
    LET q == QueryReplies
        rows == SelectSeq(q, IsDataRow)
        returned == client_pc \in {"report", "terminate"} \/ exit_code = <<0>>
                        \/ \E i \in DOMAIN trace : trace[i] = Printed
    IN  /\ \A i \in DOMAIN q :
              /\ q[i].msg = "ReadyForQuery" => (i = Len(q) /\ returned)
              /\ q[i].msg = "ErrorResponse" =>
                    (i = Len(q) /\ ~returned /\ exit_code = <<1>>)
        /\ returned =>
              /\ q # <<>> /\ q[Len(q)].msg = "ReadyForQuery"
              /\ report.parse_complete <=> \E i \in DOMAIN q : q[i].msg = "ParseComplete"
              /\ report.bind_complete <=> \E i \in DOMAIN q : q[i].msg = "BindComplete"
              /\ report.rows = [i \in 1..Len(rows) |-> rows[i].body]
              /\ report.fields = LastBody(q, "RowDescription", 0)
              /\ report.command_tag =
                    (IF \E i \in DOMAIN q : q[i].msg = "CommandComplete"
                     THEN <<LastBody(q, "CommandComplete", 0)>> ELSE <<>>)

\* two RowDescriptions were read before ReadyForQuery
C33_Witness ==
    /\ client_pc = "report"
    /\ Len(QueryReplies) = 3
    /\ QueryReplies[1] = GotBody("RowDescription", "query", 1)
    /\ QueryReplies[2] = GotBody("RowDescription", "query", 2)
    /\ report.fields = 2

\* handle_connection took the "Client disconnected during startup" return
DisconnectedDuringStartup ==
    /\ pc = "done" /\ result = "ok"
    /\ ~sslRequested /\ ~upstreamOpen
    /\ Len(startup_buf) < 8

(***************************************************************************)
(* C34: the negotiator decides on the first 8 bytes of the connection      *)
(* however they are chunked by TCP: a client whose first 8 bytes arrive in *)
(* more than one read (the first read returning 1..7 bytes while the       *)
(* client is still connected) is not treated as disconnected, and its      *)
(* session is proxied.                                                     *)
(***************************************************************************)
C34_SplitStartupIsProxied ==
    DisconnectedDuringStartup => Len(clientIn) < 8

\* the frames a pump decoded from the chunk it has just read (pump[d].n bytes)
ChunkFrames(d) ==
    SelectSeq(decoded[d], LAMBDA f : f[1] >= pos[d] - pump[d].n)

\* the chunk's frames lie end to end from the chunk's first byte, and what
\* follows the last of them is no complete frame
WalkedContiguously(d) ==
    LET fs == ChunkFrames(d)
        start == pos[d] - pump[d].n
        stop == IF fs = <<>> THEN start
                ELSE fs[Len(fs)][1] + 1 + fs[Len(fs)][3]
    IN  /\ fs # <<>> => fs[1][1] = start
        /\ \A k \in 1..Len(fs) : 1 + fs[k][3] >= 1
        /\ \A k \in 1..(Len(fs) - 1) : fs[k + 1][1] = fs[k][1] + 1 + fs[k][3]
        /\ stop <= pos[d]
        /\ \/ pos[d] - stop < 5
           \/ pos[d] - stop < U32(Source(d), stop + 2) + 1

(***************************************************************************)
(* C35: the frame loop of parse_message terminates for every finite input  *)
(* and walks the chunk contiguously: each iteration consumes exactly 1+len *)
(* bytes (at least one byte), frame offsets strictly increase, each        *)
(* complete frame in the chunk is dispatched to the decoder exactly once,  *)
(* and no byte between two consecutive frames is skipped or read twice.    *)
(***************************************************************************)
C35_FrameLoopWalksChunk ==
    \A d \in Dirs :
       /\ pump[d].pc # "panicked"
       /\ pump[d].pc = "write" => WalkedContiguously(d)
       /\ \A j, k \in 1..Len(decoded[d]) : j < k => decoded[d][j][1] < decoded[d][k][1]


\* the frame dispatched last is a completion that took the mark of slot k
Completed(k) ==
    /\ last.direction = U2C
    /\ last.took.what # "none"
    /\ SlotOf(last.took.what) = k

\* server messages other than the three completions leave the four slots alone, and a
\* mark that was set when an ErrorResponse arrived stays set
C36_OnlyCompletionsClear ==
    /\ (last.direction = U2C /\ last.msg_type \notin {67, 49, 50}) => timings = last.timings
    /\ \A k \in Kinds : errored[k] # None => timings[k] # None

(***************************************************************************)
(* C36 (as stated): timing slots are cleared only by CommandComplete,      *)
(* ParseComplete and BindComplete: ErrorResponse, ReadyForQuery and every  *)
(* other server message leave all four slots unchanged, so a request that  *)
(* ends in ErrorResponse leaves its mark set, and the next completion of   *)
(* that kind (belonging to a later request) reports a duration measured    *)
(* from the stale mark.                                                    *)
(***************************************************************************)
C36_StaleMarkReported ==
    /\ C36_OnlyCompletionsClear
    /\ \A k \in Kinds :
          (Completed(k) /\ last.errored[k] # None) => last.took.at = last.errored[k]

(***************************************************************************)
(* C36 (amended): timing slots are cleared only by CommandComplete,        *)
(* ParseComplete and BindComplete: ErrorResponse, ReadyForQuery and every  *)
(* other server message leave all four slots unchanged, so a request that  *)
(* ends in ErrorResponse leaves its mark set.  The next completion of that *)
(* kind reports a duration measured from the stale mark when no request of *)
(* that kind has been marked since the ErrorResponse, and from the latest  *)
(* mark of that kind when one has overwritten the stale mark.              *)
(***************************************************************************)
C36_StaleMarkUntilOverwritten ==
    /\ C36_OnlyCompletionsClear
    /\ \A k \in Kinds :
          (Completed(k) /\ last.errored[k] # None) =>
             /\ last.took.at = last.timings[k]
             /\ last.timings[k] >= last.errored[k]
             /\ last.timings[k] = last.errored[k] => last.took.at = last.errored[k]

\* a Query was marked, an ErrorResponse arrived, and the CommandComplete that came next
\* took the Query's mark
C36_Witness ==
    /\ Completed("simple_query")
    /\ last.msg_type = 67
    /\ last.errored.simple_query # None
    /\ last.took.at = last.errored.simple_query
    /\ timings.simple_query = None

(***************************************************************************)
(* C37: in table mode every data-row line of a result set has the same     *)
(* number of cells as its header (the field count of the RowDescription),  *)
(* each cell 15 characters wide, also when a DataRow carries more or fewer *)
(* values than the RowDescription has fields or is truncated part-way.     *)
(***************************************************************************)
C37_RowCellsMatchHeader ==
    (last.direction = U2C /\ last.msg_type = 68 /\ table.table_mode
        /\ table.current_formatter # <<>>) =>
       LET f == table.current_formatter[1]
       IN  \A i \in DOMAIN lines :
              lines[i].kind = "row" =>
                 /\ lines[i].cells = f.fields
                 /\ \A c \in 1..lines[i].cells :
                       format_row_width(f.column_widths, c) = FIXED_COL_WIDTH

(***************************************************************************)
(* C38: with table mode on, every DataRow the server sends produces log    *)
(* output: a DataRow that arrives while no formatter is current (no        *)
(* RowDescription since the last CommandComplete, or a RowDescription      *)
(* whose fields could not be parsed) is still logged, as a table row or in *)
(* the plain DataRow format, and is never silently dropped.  Stated of the  *)
(* DataRows from which parse_data_row obtains at least one value.          *)
(***************************************************************************)
C38_DataRowAlwaysLogged ==
    (last.direction = U2C /\ last.msg_type = 68 /\ last.table.table_mode
        /\ last.parsed > 0) =>
       \E i \in DOMAIN lines : lines[i].kind \in {"row", "DataRow", "DataRow without count"}

(***************************************************************************)
(* C39: the diagnostic client closes every session it has started with     *)
(* Terminate: also when the authentication loop or the extended-query      *)
(* phase fails (ErrorResponse, unsupported authentication, missing         *)
(* password, unexpected EOF), Terminate is sent before the process exits.  *)
(***************************************************************************)
C39_TerminateOnEveryExit ==
    (exit_code # <<>> /\ \E i \in DOMAIN trace : trace[i] = Sent("StartupMessage")) =>
       \E i \in DOMAIN trace : trace[i] = Sent("Terminate")

(***************************************************************************)
(* C40: parse_data_row never panics when it shortens a column value for    *)
(* logging: for every valid-UTF-8 value longer than 100 bytes, including   *)
(* values in which byte offset 100 falls inside a multi-byte character, it *)
(* yields the shortened rendering with the byte count.                     *)
(***************************************************************************)
C40_ShorteningNeverPanics ==
    shown # NotShown =>
       /\ shown.kind # "panic"
       /\ str_len(value) > TruncateAt =>
             /\ shown.kind = "shortened"
             /\ shown.bytes = str_len(value)

====
